---- MODULE Spec2Model ----
(***************************************************************************)
(* Order execution and allocation engine of Automate_Trading.              *)
(*                                                                         *)
(*   - TradingAPI.send_order (src/trading_api.py): the venue fallback loop *)
(*     of the order router, one step per iteration of the loop.            *)
(*   - main (src/main.py): the buy phase, budget split and ladder walk,    *)
(*     one step per stretch of code between two router calls.              *)
(*   - main (src/main.py): the sell phase, classification of the holdings, *)
(*     profit-taking pass and stop-loss pass, one step per turn of a loop. *)
(*   - get_access_token (src/utils.py): the token cache, one step per      *)
(*     call, on a clock of hours.                                          *)
(*                                                                         *)
(* Money is kept exact.  A price or an amount is an integer number of      *)
(* 1/Unit dollars.  The per-symbol budget C/n is kept as the numerator of  *)
(* a fraction over n, so that the division of the cash by the number of    *)
(* signals loses nothing.  Python's binary floating point error is not     *)
(* modelled: round() and the .2f format round the exact decimal value,     *)
(* half to even.                                                           *)
(***************************************************************************)
EXTENDS Integers, Sequences, FiniteSets, TLC

\* ------------------------------------------------------------------------
\* Bounds of the model
\* ------------------------------------------------------------------------
MaxQuantity == 2
MaxLevels == 2
MaxClock == 50
MaxAsks == 2
MaxCycleSignals == 1
MaxCycleLevels == 1

\* One dollar, in the model's unit of account (1/10000 dollar, the four
\* decimals of the provider's price strings).
Unit == 100 * 100

None == "None"

\* ------------------------------------------------------------------------
\* Numeric helpers
\* ------------------------------------------------------------------------

\* Python int(a / b) for b > 0: truncation toward zero.
IntDiv(a, b) == IF a >= 0 THEN a \div b ELSE -((-a) \div b)

\* Rounding of x to a multiple of step, half to even (Python round()).
RoundHalfEven(x, step) ==
    LET q == x \div step
        r == x % step
    IN  IF 2 * r < step THEN q * step
        ELSE IF 2 * r > step THEN (q + 1) * step
        ELSE IF q % 2 = 0 THEN q * step ELSE (q + 1) * step

\* round(price, 2)
Round2(price) == RoundHalfEven(price, Unit \div 100)

RetryAtCents(price) == RoundHalfEven(price, Unit \div 100)

\* round(price)
Round0(price) == RoundHalfEven(price, Unit)

\* f"{order_price:.2f}": the limit price as it is written in the payload.
Fmt2(limit_price) == RoundHalfEven(limit_price, Unit \div 100)

\* str.upper() on the strings the model uses.
Upper(s) ==
    CASE s = "buy" -> "BUY"
      [] s = "sell" -> "SELL"
      [] s = "hold" -> "HOLD"
      [] OTHER -> s

\* ------------------------------------------------------------------------
\* TradingAPI: configuration
\* ------------------------------------------------------------------------

countries == <<"US">>

\* self.tr_id_map
tr_id_map ==
    (<<"US", "BUY">> :> "TTTT1002U") @@ (<<"US", "SELL">> :> "TTTT1006U")

TrIdGetDefault(country, order_type) ==
    IF <<country, Upper(order_type)>> \in DOMAIN tr_id_map
    THEN tr_id_map[<<country, Upper(order_type)>>]
    ELSE "TTTT1002U"

\* self.tr_id_map.get((country, order_type.upper()))
TrIdGet(country, order_type) ==
    IF <<country, Upper(order_type)>> \in DOMAIN tr_id_map
    THEN tr_id_map[<<country, Upper(order_type)>>]
    ELSE None

exchange_codes_reordered == <<"NYSE", "NASD", "AMEX">>

\* exchange_codes = ['NASD', 'NYSE', 'AMEX']
exchange_codes == <<"NASD", "NYSE", "AMEX">>

\* ------------------------------------------------------------------------
\* What the outside world can answer
\* ------------------------------------------------------------------------

\* Answers to the hash request of get_hashkey.
HashReplies == {"HASH_PRESENT", "HASH_MISSING", "REQUEST_ERROR", "BAD_BODY"}

\* What the hash service gave: a hash ("HASH") or nothing usable ("NONE").
HashOutcome(reply) == IF reply = "HASH_PRESENT" THEN "HASH" ELSE "NONE"

get_hashkey_text(reply) == IF reply = "HASH_PRESENT" THEN "hashkey" ELSE "error"

\* get_hashkey(data): the hash, or None on every failure.
get_hashkey(reply) == IF reply = "HASH_PRESENT" THEN "hashkey" ELSE None

\* Answers to one order request: no answer at all (timeout, connection
\* error), or an HTTP status, whether the text holds the token EGW00201,
\* and the body (rt_cd '0', another rt_cd, or not a JSON object).
Responses ==
    {[transport |-> TRUE, status |-> 0, egw |-> FALSE, body |-> "NO_BODY"]}
    \cup
    [transport : {FALSE}, status : {200, 429, 500}, egw : BOOLEAN,
     body : {"RT_CD_0", "RT_CD_OTHER", "NOT_JSON"}]

\* The branch of the try/except of send_order that a response takes.
Branch(resp) ==
    IF resp.transport THEN "REQUEST_ERROR"
    ELSE IF resp.status >= 400
         THEN IF resp.status = 429 \/ resp.egw THEN "RATE_LIMIT"
              ELSE "HTTP_ERROR"
    ELSE IF resp.body = "NOT_JSON" THEN "UNEXPECTED"
    ELSE IF resp.body = "RT_CD_0" THEN "SUCCESS"
    ELSE "REJECTED"

CaughtNoCatchAll == {"HTTP_ERROR", "RATE_LIMIT", "REQUEST_ERROR"}

\* The failures the except clauses of send_order catch; the last clause,
\* except Exception, catches whatever the first two let through.
Caught == {"HTTP_ERROR", "RATE_LIMIT", "REQUEST_ERROR", "UNEXPECTED"}

\* ------------------------------------------------------------------------
\* State
\* ------------------------------------------------------------------------
VARIABLES
    \* the order router, TradingAPI.send_order
    rpc,        \* "idle", "venue" (in the venue loop), "done", "raised"
    args,       \* the arguments of the call in progress
    ex,         \* position of the venue loop in exchange_codes
    trace,      \* what the call in progress has sent and done, in order
    result,     \* the value returned by the last call
    calls,      \* the calls that have returned, in order, each with its
                \* symbol, side, quantity, limit price as written in the
                \* payload, and whether a venue accepted the order
    \* the driver, main
    pc,                     \* where main is
    total_purchase_cash,    \* the orderable cash read at the start
    actions,                \* the symbols of the signals, get_actions()
    ai,                     \* position of `for action in actions`
    buy_amount,             \* budget left to the symbol, times n
    asking_prices_sorted,   \* the ladder being walked
    li,                     \* position of `for ask in asking_prices_sorted`
    desired_quantity,
    remaining_quantity,
    total_bought,
    buy_quantities,         \* the fill list of the symbol
    buy_quantity,           \* quantity of the level being ordered
    order_price,            \* round(price, 2) of the level being ordered
    bought_stocks,
    insufficient_buy_messages,
    buy_summary,
    ladder_calls,           \* the symbols get_asking_price_10 was called for
    \* the sell phase of main
    today,                      \* datetime.date.today(), a day number
    positions,                  \* the holdings of get_balance, by symbol
    si,                         \* position of the loop in progress
    buy_date_calls,             \* what get_buy_date returned, per call
    profitable_positions,
    non_profitable_positions,
    price_calls,                \* what get_current_price returned, per call
    sell_orders,                \* the SELL orders main handed to send_order
    sold_stocks,
    total_profit,
    paced,                      \* time.sleep(request_delay) has run since
                                \* main last called send_order
    \* the token cache, utils.get_access_token
    token_file,     \* the content of access_token.json
    now,            \* the clock, in hours
    last_call,      \* what the last call of get_access_token did
    \* the price gateway, TradingAPI.get_current_price
    qx,             \* position of the loop in exchange_order
    quotes,         \* the venues queried so far, each with its answer
    quote_result,   \* the value returned
    \* the ladder gateway, TradingAPI.get_asking_price_10
    ask_call        \* the provider's answer and the value returned for it

routerVars == <<rpc, args, ex, trace, result, calls>>
walkVars == <<buy_amount, asking_prices_sorted, li, desired_quantity,
              remaining_quantity, total_bought, buy_quantities,
              buy_quantity, order_price>>
cycleVars == <<total_purchase_cash, actions, ai, bought_stocks,
               insufficient_buy_messages, buy_summary, ladder_calls>>
sellVars == <<today, positions, si, buy_date_calls, profitable_positions,
              non_profitable_positions, price_calls, sell_orders, sold_stocks,
              total_profit>>
tokenVars == <<token_file, now, last_call>>
priceVars == <<qx, quotes, quote_result>>
ladderVars == <<ask_call>>
libVars == <<tokenVars, priceVars, ladderVars>>
mainVars == <<pc, walkVars, cycleVars, sellVars, paced>>
vars == <<routerVars, mainVars, libVars>>

NoArgs == [symbol |-> None, order_type |-> None, quantity |-> 0, order_price |-> 0]
NoResult == [success |-> FALSE, data |-> None, error |-> "NOT_RETURNED"]

\* return {'success': False, 'data': None, 'error': error_msg}
Failure(error_msg) == [success |-> FALSE, data |-> None, error |-> error_msg]

SuccessFirstVenue(quantity, limit_price, exchange_code) ==
    [success |-> TRUE,
     data |-> [quantity |-> quantity, price |-> limit_price,
               exchange_code |-> exchange_codes[1]],
     error |-> None]

\* The value returned when a venue has accepted the order.
Success(quantity, limit_price, exchange_code) ==
    [success |-> TRUE,
     data |-> [quantity |-> quantity, price |-> limit_price,
               exchange_code |-> exchange_code],
     error |-> None]

\* One returned call of send_order.
Call(a, accepted) ==
    [symbol |-> a.symbol, side |-> Upper(a.order_type), quantity |-> a.quantity,
     price |-> Fmt2(a.order_price), accepted |-> accepted]

Event(ev, venue, outcome) == [ev |-> ev, venue |-> venue, outcome |-> outcome]

\* ------------------------------------------------------------------------
\* TradingAPI.send_order
\* ------------------------------------------------------------------------

\* Entry of send_order up to the venue loop: the tr_id lookup.
SendOrderEnter(symbol, order_type, quantity, limit_price) ==
    /\ args' = [symbol |-> Upper(symbol), order_type |-> order_type,
                quantity |-> quantity, order_price |-> limit_price]
    /\ trace' = <<>>
    /\ ex' = 1
    /\ IF TrIdGet(countries[1], order_type) = None
       THEN /\ rpc' = "done"
            /\ result' = Failure("TR_ID_NOT_FOUND")
            /\ calls' = Append(calls, Call(args', FALSE))
       ELSE /\ rpc' = "venue"
            /\ result' = NoResult
            /\ UNCHANGED calls

\* The venue the loop turns to after a rate-limited answer: `continue`
\* takes the for loop to the next exchange code.
AfterRateLimit(i) == i + 1

\* One iteration of `for exchange_code in exchange_codes`.
VenueIteration ==
    /\ rpc = "venue"
    /\ ex <= Len(exchange_codes)
    /\ LET exchange_code == exchange_codes[ex]
           side == Upper(args.order_type)
       IN  IF side \notin {"BUY", "SELL"}
           THEN /\ rpc' = "done"
                /\ result' = Failure("UNKNOWN_ORDER_TYPE")
                /\ calls' = Append(calls, Call(args, FALSE))
                /\ UNCHANGED <<args, ex, trace>>
           ELSE \E reply \in HashReplies :
                IF get_hashkey(reply) = None
                THEN /\ rpc' = "done"
                     /\ result' = Failure("HASHKEY_FAILED")
                     /\ trace' = Append(trace, Event("hash", exchange_code, HashOutcome(reply)))
                     /\ calls' = Append(calls, Call(args, FALSE))
                     /\ UNCHANGED <<args, ex>>
                ELSE \E resp \in Responses :
                     LET hashed == Append(trace, Event("hash", exchange_code, HashOutcome(reply)))
                         branch == Branch(resp)
                     IN  CASE branch = "SUCCESS" ->
                                /\ rpc' = "done"
                                /\ result' = Success(args.quantity, args.order_price,
                                                      exchange_code)
                                /\ trace' = Append(hashed, Event("order", exchange_code, "OK"))
                                /\ calls' = Append(calls, Call(args, TRUE))
                                /\ UNCHANGED <<args, ex>>
                           [] branch = "REJECTED" ->
                                /\ trace' = Append(hashed, Event("order", exchange_code, "FAILED"))
                                /\ ex' = ex + 1
                                /\ UNCHANGED <<rpc, args, result, calls>>
                           [] branch \notin {"SUCCESS", "REJECTED"} /\ branch \notin Caught ->
                                /\ rpc' = "raised"
                                /\ trace' = Append(hashed, Event("order", exchange_code, "FAILED"))
                                /\ UNCHANGED <<args, ex, result, calls>>
                           [] branch = "RATE_LIMIT" /\ branch \in Caught ->
                                /\ trace' = Append(Append(hashed,
                                              Event("order", exchange_code, "RATE_LIMIT")),
                                              Event("sleep", exchange_code, "1s"))
                                /\ ex' = AfterRateLimit(ex)
                                /\ UNCHANGED <<rpc, args, result, calls>>
                           [] OTHER ->
                                /\ trace' = Append(hashed, Event("order", exchange_code, "FAILED"))
                                /\ ex' = ex + 1
                                /\ UNCHANGED <<rpc, args, result, calls>>
    /\ UNCHANGED <<mainVars, libVars>>

\* After the venue loop: every venue has failed.
AllVenuesFailed ==
    /\ rpc = "venue"
    /\ ex > Len(exchange_codes)
    /\ rpc' = "done"
    /\ result' = Failure("ALL_EXCHANGES_FAILED")
    /\ calls' = Append(calls, Call(args, FALSE))
    /\ UNCHANGED <<args, ex, trace>>
    /\ UNCHANGED <<mainVars, libVars>>

\* ------------------------------------------------------------------------
\* The router on its own: one call of send_order with any arguments
\* ------------------------------------------------------------------------
OrderTypes == {"BUY", "SELL", "buy", "HOLD"}
OrderPrices == {95000, 99960, 10 * Unit}

CallSendOrder ==
    /\ pc = "router"
    /\ rpc = "idle"
    /\ \E order_type \in OrderTypes, quantity \in 1..MaxQuantity,
          limit_price \in OrderPrices :
          SendOrderEnter("AAA", order_type, quantity, limit_price)
    /\ UNCHANGED <<mainVars, libVars>>

\* No call of send_order in progress.
RouterIdle ==
    /\ rpc = "idle"
    /\ args = NoArgs
    /\ ex = 1
    /\ trace = <<>>
    /\ result = NoResult

\* The locals of the ladder walk before a walk has set them.
NoWalk ==
    /\ buy_amount = 0
    /\ asking_prices_sorted = <<>>
    /\ li = 1
    /\ desired_quantity = 0
    /\ remaining_quantity = 0
    /\ total_bought = 0
    /\ buy_quantities = <<>>
    /\ buy_quantity = 0
    /\ order_price = 0

NoCycle ==
    /\ actions = <<>>
    /\ ai = 1
    /\ bought_stocks = 0
    /\ insufficient_buy_messages = <<>>
    /\ buy_summary = <<>>
    /\ ladder_calls = <<>>
    /\ paced = TRUE

\* The locals of the sell phase before the sell phase has set them.
NoSell ==
    /\ today = 0
    /\ positions = <<>>
    /\ si = 1
    /\ buy_date_calls = <<>>
    /\ profitable_positions = <<>>
    /\ non_profitable_positions = <<>>
    /\ price_calls = <<>>
    /\ sell_orders = <<>>
    /\ sold_stocks = 0
    /\ total_profit = 0

\* get_current_price has not returned.
NoQuoteResult == [returned |-> FALSE, price |-> 0]

\* get_asking_price_10 has not been called.
NoAskCall ==
    [called |-> FALSE,
     reply |-> [transport |-> "no_call", status |-> 0, json |-> FALSE,
                rt_cd |-> None, output2 |-> FALSE, asks |-> <<>>],
     is_none |-> TRUE, asking_prices |-> <<>>, error |-> None]

\* Neither gateway has been called.
NoGateway ==
    /\ qx = 1
    /\ quotes = <<>>
    /\ quote_result = NoQuoteResult
    /\ ask_call = NoAskCall

\* get_access_token has not been called.
NoCall ==
    [at |-> 0, before |-> [kind |-> "absent", access_token |-> None, timestamp |-> 0],
     readable |-> TRUE, source |-> "no_call", returned |-> None, requests |-> 0,
     reply |-> None, removed |-> FALSE, write |-> None]

\* No token file, and get_access_token not called yet.
NoToken ==
    /\ token_file = [kind |-> "absent", access_token |-> None, timestamp |-> 0]
    /\ now = 0
    /\ last_call = NoCall

InitRouter ==
    /\ RouterIdle
    /\ calls = <<>>
    /\ pc = "router"
    /\ total_purchase_cash = 0
    /\ NoWalk
    /\ NoCycle
    /\ NoSell
    /\ NoToken
    /\ NoGateway

NextRouter == CallSendOrder \/ VenueIteration \/ AllVenuesFailed

SpecRouter == InitRouter /\ [][NextRouter]_vars

\* ------------------------------------------------------------------------
\* main: the buy phase
\* ------------------------------------------------------------------------

\* MIN_BUY_AMOUNT = 0.01
MIN_BUY_AMOUNT == Unit \div 100

\* MIN_BUY_QUANTITY = 1
MIN_BUY_QUANTITY == 1

n == Len(actions)

\* An amount of money as a numerator over n, the form buy_amount is kept in.
OverN(amount) == amount * n

per_stock_cash_carried ==
    total_purchase_cash + (IF ai > 1 THEN buy_amount ELSE 0)

RECURSIVE SellProceeds(_)
SellProceeds(cs) ==
    IF cs = <<>> THEN 0
    ELSE SellProceeds(Tail(cs))
         + (IF Head(cs).accepted /\ Head(cs).side = "SELL"
            THEN Head(cs).quantity * Head(cs).price ELSE 0)

per_stock_cash_with_proceeds == total_purchase_cash + SellProceeds(calls)

\* per_stock_cash = total_purchase_cash / n, as a numerator over n.
per_stock_cash == total_purchase_cash

BelowMinimumOfTotal(amount) == amount < MIN_BUY_AMOUNT

\* buy_amount < MIN_BUY_AMOUNT
BelowMinimum(amount) == amount < OverN(MIN_BUY_AMOUNT)

Min(a, b) == IF a <= b THEN a ELSE b

\* sorted(asking_prices, key=lambda x: x['price']): stable, ascending.
InsertByPrice(t, x) ==
    LET k == Cardinality({i \in 1..Len(t) : t[i].price <= x.price})
    IN  SubSeq(t, 1, k) \o <<x>> \o SubSeq(t, k + 1, Len(t))

RECURSIVE SortedByPrice(_)
SortedByPrice(s) ==
    IF s = <<>> THEN <<>>
    ELSE InsertByPrice(SortedByPrice(SubSeq(s, 1, Len(s) - 1)), s[Len(s)])

\* min([ask['price'] for ask in asking_prices_sorted if ask['price'] > 0] or [1])
MinPositivePrice(ladder) ==
    LET positive == {ladder[i].price : i \in {j \in 1..Len(ladder) : ladder[j].price > 0}}
    IN  IF positive = {} THEN Unit
        ELSE CHOOSE p \in positive : \A q \in positive : p <= q

\* desired_quantity = int(buy_amount / min(...))
DesiredQuantity(amount, ladder) == IntDiv(amount, OverN(MinPositivePrice(ladder)))

\* possible_quantity = int(buy_amount / price)
PossibleQuantity(amount, price) == IntDiv(amount, OverN(price))

BuyQuantityIgnoringBudget(volume, possible_quantity, remaining) ==
    Min(volume, remaining)

\* buy_quantity = min(volume, possible_quantity, remaining_quantity)
BuyQuantity(volume, possible_quantity, remaining) ==
    Min(volume, Min(possible_quantity, remaining))

SpendNothing(amount, quantity, price) == amount

\* buy_amount -= buy_quantity * price
Spend(amount, quantity, price) == amount - OverN(quantity * price)

\* The price written in the fill list: order_price, the round(price, 2) of
\* the first attempt.
FillPrice(first_price, accepted_price) == first_price

\* The symbols of the signals get_actions() can return, and the amounts of
\* orderable cash the balance query can report.
SignalSymbols == <<"AAA", "BBB">>
CashSet == {-Unit, 0, Unit \div 100, 96 * Unit, 100 * Unit, 200 * Unit}

\* The levels get_asking_price_10 can report: float(price), int(volume).
Level(price, volume) == [price |-> price, volume |-> volume]
LevelSet ==
    {Level(0, 5), Level(95000, 5), Level(96000, 20), Level(98000, 100),
     Level(99960, 5), Level(97000, 0)}

\* A ladder as get_asking_price_10 returns it: sorted ascending by price.
RECURSIVE LaddersOfLength(_)
LaddersOfLength(k) ==
    IF k = 0 THEN {<<>>}
    ELSE {Append(l, x) : l \in LaddersOfLength(k - 1), x \in LevelSet}

Ladders ==
    {l \in UNION {LaddersOfLength(k) : k \in 1..MaxLevels} :
        \A i \in 1..(Len(l) - 1) : l[i].price < l[i + 1].price}

\* The ladder of the worked scenario.
ScenarioLadder == <<Level(95000, 5), Level(96000, 20), Level(98000, 100)>>

Message(symbol, reason) == [symbol |-> symbol, reason |-> reason]

\* The frame of send_order is gone once its result has been read.
RouterReturn ==
    /\ rpc' = "idle"
    /\ args' = NoArgs
    /\ ex' = 1
    /\ trace' = <<>>
    /\ result' = NoResult
    /\ UNCHANGED calls

\* actions = get_actions() and the budget split.
GetActions ==
    /\ pc = "buy_start"
    /\ \E k \in 0..Len(SignalSymbols) :
         /\ actions' = SubSeq(SignalSymbols, 1, k)
         /\ pc' = IF k = 0 THEN "end" ELSE "for_action"
    /\ ai' = 1
    /\ insufficient_buy_messages' = <<>>
    /\ buy_summary' = <<>>
    /\ bought_stocks' = 0
    /\ UNCHANGED <<total_purchase_cash, ladder_calls, walkVars, routerVars>>
    /\ UNCHANGED <<sellVars, libVars, paced>>

\* One turn of `for action in actions` up to the ladder walk, the ladder
\* query answering with an error, with no level, or with one of ladders.
BeginSymbolWith(ladders) ==
    /\ pc = "for_action"
    /\ ai <= n
    /\ LET symbol == actions[ai]
           skip(reason) ==
               /\ insufficient_buy_messages' =
                      Append(insufficient_buy_messages, Message(symbol, reason))
               /\ ai' = ai + 1
               /\ UNCHANGED <<pc, asking_prices_sorted, li, desired_quantity,
                              remaining_quantity, total_bought, buy_quantities>>
       IN  /\ buy_amount' = per_stock_cash
           /\ IF BelowMinimum(per_stock_cash)
              THEN /\ skip("BELOW_MIN_BUY_AMOUNT")
                   /\ UNCHANGED ladder_calls
              ELSE /\ ladder_calls' = Append(ladder_calls, symbol)
                   /\ \/ skip("LADDER_ERROR")
                      \/ skip("LADDER_EMPTY")
                      \/ \E asking_prices \in ladders :
                           /\ asking_prices_sorted' = SortedByPrice(asking_prices)
                           /\ desired_quantity' =
                                  DesiredQuantity(per_stock_cash, asking_prices_sorted')
                           /\ remaining_quantity' = desired_quantity'
                           /\ total_bought' = 0
                           /\ buy_quantities' = <<>>
                           /\ li' = 1
                           /\ pc' = "for_ask"
                           /\ UNCHANGED <<ai, insufficient_buy_messages>>
    /\ UNCHANGED <<total_purchase_cash, actions, bought_stocks, buy_summary,
                   buy_quantity, order_price, routerVars>>
    /\ UNCHANGED <<sellVars, libVars, paced>>

BeginSymbol == BeginSymbolWith(Ladders \cup {ScenarioLadder})

\* One turn of `for ask in asking_prices_sorted` up to the first order.
WalkLevel ==
    /\ pc = "for_ask"
    /\ li <= Len(asking_prices_sorted)
    /\ LET price == asking_prices_sorted[li].price
           volume == asking_prices_sorted[li].volume
           possible_quantity == PossibleQuantity(buy_amount, price)
           quantity == BuyQuantity(volume, possible_quantity, remaining_quantity)
       IN  IF \/ price <= 0
              \/ possible_quantity <= 0
              \/ quantity < MIN_BUY_QUANTITY
           THEN /\ li' = li + 1
                /\ UNCHANGED <<pc, buy_quantity, order_price, routerVars, paced>>
           ELSE /\ buy_quantity' = quantity
                /\ order_price' = Round2(price)
                /\ SendOrderEnter(actions[ai], "BUY", quantity, order_price')
                /\ pc' = "first_order"
                /\ paced' = FALSE
                /\ UNCHANGED li
    /\ UNCHANGED <<buy_amount, asking_prices_sorted, desired_quantity,
                   remaining_quantity, total_bought, buy_quantities, cycleVars>>
    /\ UNCHANGED <<sellVars, libVars>>

DesiredNeverReached(remaining) == FALSE

\* `if remaining_quantity <= 0: break`
DesiredReached(remaining) == remaining <= 0

\* time.sleep(request_delay)
Sleep == paced' = TRUE

\* `if order_info['success']: ... else: ...` and the test for the break.
Settle ==
    /\ IF result.success
       THEN /\ buy_quantities' = Append(buy_quantities,
                   [price |-> FillPrice(order_price, result.data.price),
                    quantity |-> buy_quantity])
            /\ Sleep
            /\ total_bought' = total_bought + buy_quantity
            /\ remaining_quantity' = remaining_quantity - buy_quantity
            /\ bought_stocks' = bought_stocks + 1
            /\ buy_amount' = Spend(buy_amount, buy_quantity,
                                   asking_prices_sorted[li].price)
       ELSE UNCHANGED <<buy_quantities, total_bought, remaining_quantity,
                        bought_stocks, buy_amount, paced>>
    /\ IF DesiredReached(remaining_quantity')
       THEN pc' = "symbol_done" /\ UNCHANGED li
       ELSE pc' = "for_ask" /\ li' = li + 1
    /\ RouterReturn
    /\ UNCHANGED <<asking_prices_sorted, desired_quantity, buy_quantity, order_price,
                   total_purchase_cash, actions, ai, insufficient_buy_messages,
                   buy_summary, ladder_calls>>
    /\ UNCHANGED <<sellVars, libVars>>

\* The first send_order has returned: retry at the integer price, or settle.
AfterFirstOrder ==
    /\ pc = "first_order"
    /\ rpc = "done"
    /\ IF ~result.success
       THEN /\ SendOrderEnter(actions[ai], "BUY", buy_quantity,
                              Round0(asking_prices_sorted[li].price))
            /\ pc' = "retry_order"
            /\ paced' = FALSE
            /\ UNCHANGED <<walkVars, cycleVars, sellVars, libVars>>
       ELSE Settle

\* The second send_order has returned.
AfterRetryOrder ==
    /\ pc = "retry_order"
    /\ rpc = "done"
    /\ Settle

\* After the walk of one symbol: the summary and the next symbol.
SymbolDone ==
    /\ \/ pc = "symbol_done"
       \/ pc = "for_ask" /\ li > Len(asking_prices_sorted)
    /\ buy_summary' = Append(buy_summary,
           [symbol |-> actions[ai], quantity |-> total_bought])
    /\ insufficient_buy_messages' =
           IF total_bought = 0
           THEN Append(insufficient_buy_messages, Message(actions[ai], "ZERO_BOUGHT"))
           ELSE insufficient_buy_messages
    /\ ai' = ai + 1
    /\ pc' = "for_action"
    /\ UNCHANGED <<total_purchase_cash, actions, bought_stocks, ladder_calls,
                   walkVars, routerVars>>
    /\ UNCHANGED <<sellVars, libVars, paced>>

\* After the last symbol: the closing messages.
EndActions ==
    /\ pc = "for_action"
    /\ ai > n
    /\ pc' = "end"
    /\ UNCHANGED <<walkVars, cycleVars, routerVars, sellVars, libVars, paced>>

Init ==
    /\ RouterIdle
    /\ calls = <<>>
    /\ pc = "buy_start"
    /\ total_purchase_cash \in CashSet
    /\ NoWalk
    /\ NoCycle
    /\ NoSell
    /\ NoToken
    /\ NoGateway

Next ==
    \/ GetActions
    \/ BeginSymbol
    \/ WalkLevel
    \/ VenueIteration
    \/ AllVenuesFailed
    \/ AfterFirstOrder
    \/ AfterRetryOrder
    \/ SymbolDone
    \/ EndActions

Spec == Init /\ [][Next]_vars

\* main is one sequential thread and every request it makes returns, with
\* an answer or with a timeout (timeout=10): while a step is possible, one
\* is taken.
LiveCash == {Unit \div 100, 100 * Unit}

InitLive ==
    /\ Init
    /\ total_purchase_cash \in LiveCash

SpecLive == InitLive /\ [][Next]_vars /\ WF_vars(Next)


\* Ladders of penny stocks: levels at 0.004 and 0.40 dollar, below the
\* half of the last digit round(price, 2) and round(price) keep.
PennyLevelSet == {Level(40, 5), Level(4000, 5), Level(95000, 5)}
PennyLadders ==
    {<<x>> : x \in PennyLevelSet}
    \cup {l \in {<<x, y>> : x \in PennyLevelSet, y \in PennyLevelSet} :
              l[1].price < l[2].price}

PennyBeginSymbol == BeginSymbolWith(PennyLadders)

NextPenny ==
    \/ GetActions
    \/ PennyBeginSymbol
    \/ WalkLevel
    \/ VenueIteration
    \/ AllVenuesFailed
    \/ AfterFirstOrder
    \/ AfterRetryOrder
    \/ SymbolDone
    \/ EndActions

SpecPenny == Init /\ [][NextPenny]_vars

\* ------------------------------------------------------------------------
\* main: the sell phase
\* ------------------------------------------------------------------------

\* A holding as get_balance builds it: float(pchs_avg_pric),
\* int(ovrs_cblc_qty), float(now_pric2).
Holding(symbol, entry_price, held_quantity, current_price) ==
    [symbol |-> symbol, buy_price |-> entry_price,
     buy_quantity |-> held_quantity, current_price |-> current_price]

\* The symbols of the holdings, and the prices and quantities get_balance can
\* report for one of them: entry price, quantity, snapshot price.
HeldSymbols == <<"AAA", "BBB">>
PositionSet ==
    {<<100 * Unit, 2, 110 * Unit>>, <<100 * Unit, 2, 100 * Unit>>,
     <<100 * Unit, 1, 97 * Unit>>, <<0, 1, 110 * Unit>>,
     <<100 * Unit, 0, 110 * Unit>>, <<100 * Unit, 0, 97 * Unit>>}

RECURSIVE HoldingsOfLength(_)
HoldingsOfLength(k) ==
    IF k = 0 THEN {<<>>}
    ELSE {Append(h, Holding(HeldSymbols[k], x[1], x[2], x[3])) :
            h \in HoldingsOfLength(k - 1), x \in PositionSet}

\* The lists get_balance can return; None and [] both skip the sell logic.
HoldingLists == UNION {HoldingsOfLength(k) : k \in 0..Len(HeldSymbols)}

\* The days datetime.date.today() can give, and what get_buy_date can return
\* on such a day: None, or the date of the latest buy.
\* Days are numbered; NoDate stands for the None of get_buy_date.
NoDate == -1
Dates == {10}
BuyDates(day) == {NoDate, day, day - 4, day - 5}

\* What get_current_price can return: None, or float(last).
\* NoPrice stands for the None of get_current_price.
NoPrice == -1
LivePrices == {97 * Unit, 100 * Unit, 110 * Unit}
CurrentPrices == {NoPrice} \cup LivePrices

\* A quotient of two numbers, kept exact.
Ratio(num, den) == [num |-> num, den |-> den]
Positive(r) == (r.num > 0 /\ r.den > 0) \/ (r.num < 0 /\ r.den < 0)

\* ((current_price - buy_price) / buy_price) * 100 if buy_price != 0 else 0.0
ProfitPercentage(entry_price, current_price) ==
    IF entry_price # 0
    THEN Ratio((current_price - entry_price) * 100, entry_price)
    ELSE Ratio(0, 1)

ExcludedIfUnresolved(buy_date, day) == buy_date = NoDate

\* `if buy_date is None: continue` and `if buy_date == today: continue`
Excluded(buy_date, day) == buy_date = NoDate \/ buy_date = day

ProfitableOrFlat(entry_price, current_price) ==
    \/ Positive(ProfitPercentage(entry_price, current_price))
    \/ ProfitPercentage(entry_price, current_price).num = 0

\* `if profit_percentage > 0` of the classification.
Profitable(entry_price, current_price) ==
    Positive(ProfitPercentage(entry_price, current_price))

\* The entry of a bucket.
Bucketed(holding, buy_date) ==
    [symbol |-> holding.symbol, buy_price |-> holding.buy_price,
     buy_quantity |-> holding.buy_quantity, buy_date |-> buy_date,
     current_price |-> holding.current_price]

\* One returned call of get_buy_date or of get_current_price, and one
\* SELL handed to send_order.
DateCall(symbol, buy_date) == [symbol |-> symbol, buy_date |-> buy_date]
PriceCall(symbol, pass, price) == [symbol |-> symbol, pass |-> pass, price |-> price]
SellOrder(symbol, pass, quantity, price) ==
    [symbol |-> symbol, pass |-> pass, quantity |-> quantity, price |-> price]

buyFrame == <<walkVars, cycleVars, libVars>>

\* holdings, balance_error = trading_api.get_balance() and the test of it.
GetBalance ==
    /\ pc = "sell_start"
    /\ \E holdings \in HoldingLists, day \in Dates :
         /\ positions' = holdings
         /\ today' = IF holdings = <<>> THEN today ELSE day
         /\ pc' = IF holdings = <<>> THEN "sell_end" ELSE "classify"
    /\ si' = 1
    /\ sold_stocks' = 0
    /\ total_profit' = 0
    /\ profitable_positions' = <<>>
    /\ non_profitable_positions' = <<>>
    /\ UNCHANGED <<buy_date_calls, price_calls, sell_orders, routerVars, buyFrame, paced>>

\* One turn of `for symbol, holding in positions.items()`.
Classify ==
    /\ pc = "classify"
    /\ si <= Len(positions)
    /\ \E buy_date \in BuyDates(today) :
         LET holding == positions[si]
         IN  /\ buy_date_calls' = Append(buy_date_calls,
                                         DateCall(holding.symbol, buy_date))
             /\ IF Excluded(buy_date, today)
                THEN UNCHANGED <<profitable_positions, non_profitable_positions>>
                ELSE IF Profitable(holding.buy_price, holding.current_price)
                THEN /\ profitable_positions' =
                            Append(profitable_positions, Bucketed(holding, buy_date))
                     /\ UNCHANGED non_profitable_positions
                ELSE /\ non_profitable_positions' =
                            Append(non_profitable_positions, Bucketed(holding, buy_date))
                     /\ UNCHANGED profitable_positions
    /\ si' = si + 1
    /\ UNCHANGED <<pc, today, positions, price_calls, sell_orders, sold_stocks,
                   total_profit, routerVars, buyFrame, paced>>

\* After the last holding: on to the profit-taking pass.
ClassifyEnd ==
    /\ pc = "classify"
    /\ si > Len(positions)
    /\ pc' = "profit_pass"
    /\ si' = 1
    /\ UNCHANGED <<today, positions, buy_date_calls, profitable_positions,
                   non_profitable_positions, price_calls, sell_orders,
                   sold_stocks, total_profit, routerVars, buyFrame, paced>>

\* profit_amount = (current_price - buy_price) * buy_quantity, also the
\* loss_amount of the stop-loss pass.
ProfitAmount(current_price, entry_price, held_quantity) ==
    (current_price - entry_price) * held_quantity

\* The division of the recomputation is by zero: buy_price != 0 and
\* buy_price * buy_quantity == 0.
DividesByZero(entry_price, held_quantity) ==
    entry_price # 0 /\ entry_price * held_quantity = 0

\* (profit_amount / (buy_price * buy_quantity)) * 100 if buy_price != 0 else 0
RecomputedPercentage(profit_amount, entry_price, held_quantity) ==
    IF entry_price # 0
    THEN Ratio(profit_amount * 100, entry_price * held_quantity)
    ELSE Ratio(0, 1)

AlwaysProfitable(current_price, entry_price, held_quantity) == TRUE

\* `if profit_percentage > 0` of the profit-taking pass.
StillProfitable(current_price, entry_price, held_quantity) ==
    Positive(RecomputedPercentage(
        ProfitAmount(current_price, entry_price, held_quantity),
        entry_price, held_quantity))

\* One turn of `for symbol, position in profitable_positions.items()` up to
\* the order.
ProfitTake ==
    /\ pc = "profit_pass"
    /\ si <= Len(profitable_positions)
    /\ \E current_price \in CurrentPrices :
         LET position == profitable_positions[si]
         IN  /\ price_calls' = Append(price_calls,
                    PriceCall(position.symbol, "profit", current_price))
             /\ IF current_price = NoPrice
                THEN /\ si' = si + 1
                     /\ UNCHANGED <<pc, sell_orders, routerVars, paced>>
                ELSE IF DividesByZero(position.buy_price, position.buy_quantity)
                THEN /\ pc' = "raised"
                     /\ UNCHANGED <<si, sell_orders, routerVars, paced>>
                ELSE IF StillProfitable(current_price, position.buy_price,
                                        position.buy_quantity)
                THEN /\ SendOrderEnter(position.symbol, "SELL",
                                       position.buy_quantity, current_price)
                     /\ sell_orders' = Append(sell_orders,
                            SellOrder(position.symbol, "profit",
                                      position.buy_quantity, current_price))
                     /\ pc' = "profit_order"
                     /\ paced' = FALSE
                     /\ UNCHANGED si
                ELSE /\ si' = si + 1
                     /\ UNCHANGED <<pc, sell_orders, routerVars, paced>>
    /\ UNCHANGED <<today, positions, buy_date_calls, profitable_positions,
                   non_profitable_positions, sold_stocks, total_profit, buyFrame>>

BookAndStay(amount) ==
    /\ IF result.success
       THEN /\ total_profit' = total_profit + amount
            /\ sold_stocks' = sold_stocks + 1
       ELSE UNCHANGED <<total_profit, sold_stocks>>
    /\ UNCHANGED si
    /\ Sleep
    /\ RouterReturn
    /\ UNCHANGED <<today, positions, buy_date_calls, profitable_positions,
                   non_profitable_positions, price_calls, sell_orders, buyFrame>>

\* `if order_info['success']: total_profit += ...; sold_stocks += 1`
Book(amount) ==
    /\ IF result.success
       THEN /\ total_profit' = total_profit + amount
            /\ sold_stocks' = sold_stocks + 1
       ELSE UNCHANGED <<total_profit, sold_stocks>>
    /\ si' = si + 1
    /\ Sleep
    /\ RouterReturn
    /\ UNCHANGED <<today, positions, buy_date_calls, profitable_positions,
                   non_profitable_positions, price_calls, sell_orders, buyFrame>>

\* The send_order of the profit-taking pass has returned.
AfterProfitOrder ==
    /\ pc = "profit_order"
    /\ rpc = "done"
    /\ Book(ProfitAmount(args.order_price, profitable_positions[si].buy_price,
                         profitable_positions[si].buy_quantity))
    /\ pc' = "profit_pass"

\* After the last profitable position: on to the stop-loss pass.
ProfitPassEnd ==
    /\ pc = "profit_pass"
    /\ si > Len(profitable_positions)
    /\ pc' = "stop_pass"
    /\ si' = 1
    /\ UNCHANGED <<today, positions, buy_date_calls, profitable_positions,
                   non_profitable_positions, price_calls, sell_orders,
                   sold_stocks, total_profit, routerVars, buyFrame, paced>>

\* holding_period = (today - buy_date).days
HoldingPeriod(day, buy_date) == day - buy_date

HeldFourDays(holding_period) == holding_period >= 4

\* `if holding_period >= 5`
HeldLongEnough(holding_period) == holding_period >= 5

\* One turn of `for symbol, position in non_profitable_positions.items()` up
\* to the order.
StopLoss ==
    /\ pc = "stop_pass"
    /\ si <= Len(non_profitable_positions)
    /\ LET position == non_profitable_positions[si]
           skip == /\ si' = si + 1
                   /\ UNCHANGED <<pc, sell_orders, routerVars, paced>>
       IN  IF /\ HeldLongEnough(HoldingPeriod(today, position.buy_date))
              /\ ~Positive(ProfitPercentage(position.buy_price,
                                            position.current_price))
           THEN \E cur_p \in CurrentPrices :
                  /\ price_calls' = Append(price_calls,
                         PriceCall(position.symbol, "stop", cur_p))
                  /\ IF cur_p = NoPrice
                     THEN skip
                     ELSE IF ProfitAmount(cur_p, position.buy_price,
                                          position.buy_quantity) <= 0
                     THEN /\ SendOrderEnter(position.symbol, "SELL",
                                            position.buy_quantity, cur_p)
                          /\ sell_orders' = Append(sell_orders,
                                 SellOrder(position.symbol, "stop",
                                           position.buy_quantity, cur_p))
                          /\ pc' = "stop_order"
                          /\ paced' = FALSE
                          /\ UNCHANGED si
                     ELSE skip
           ELSE /\ skip
                /\ UNCHANGED price_calls
    /\ UNCHANGED <<today, positions, buy_date_calls, profitable_positions,
                   non_profitable_positions, sold_stocks, total_profit, buyFrame>>

\* The send_order of the stop-loss pass has returned.
AfterStopOrder ==
    /\ pc = "stop_order"
    /\ rpc = "done"
    /\ Book(ProfitAmount(args.order_price, non_profitable_positions[si].buy_price,
                         non_profitable_positions[si].buy_quantity))
    /\ pc' = "stop_pass"

StopPassEndRepeatsProfit ==
    /\ pc = "stop_pass"
    /\ si > Len(non_profitable_positions)
    /\ pc' = "profit_pass"
    /\ si' = 1
    /\ UNCHANGED <<today, positions, buy_date_calls, profitable_positions,
                   non_profitable_positions, price_calls, sell_orders,
                   sold_stocks, total_profit, routerVars, buyFrame, paced>>

\* After the last stop-loss candidate: the sell phase is over.
StopPassEnd ==
    /\ pc = "stop_pass"
    /\ si > Len(non_profitable_positions)
    /\ pc' = "sell_end"
    /\ UNCHANGED <<sellVars, routerVars, buyFrame, paced>>

InitSell ==
    /\ RouterIdle
    /\ calls = <<>>
    /\ pc = "sell_start"
    /\ total_purchase_cash \in {0, 200 * Unit}
    /\ NoWalk
    /\ NoCycle
    /\ NoSell
    /\ NoToken
    /\ NoGateway

NextSell ==
    \/ GetBalance
    \/ Classify
    \/ ClassifyEnd
    \/ ProfitTake
    \/ VenueIteration
    \/ AllVenuesFailed
    \/ AfterProfitOrder
    \/ ProfitPassEnd
    \/ StopLoss
    \/ AfterStopOrder
    \/ StopPassEnd

SpecSell == InitSell /\ [][NextSell]_vars

\* ------------------------------------------------------------------------
\* main: one cycle, the sell phase and then the buy phase
\* ------------------------------------------------------------------------

\* After the sell logic: the buy logic begins.
BuyLogicBegins ==
    /\ pc = "sell_end"
    /\ pc' = "buy_start"
    /\ UNCHANGED <<walkVars, cycleVars, sellVars, paced, routerVars, libVars>>

\* The cycles followed to their end: those with at most this many signals
\* and ladder levels.
CycleScope ==
    /\ Len(actions) <= MaxCycleSignals
    /\ Len(asking_prices_sorted) <= MaxCycleLevels

InitCycle ==
    /\ InitSell
    /\ total_purchase_cash = 200 * Unit

\* get_actions() and the ladder query of the cycles followed.
ScopedGetActions == GetActions /\ CycleScope'
ScopedBeginSymbol == BeginSymbol /\ CycleScope'

NextCycle ==
    \/ NextSell
    \/ BuyLogicBegins
    \/ ScopedGetActions
    \/ ScopedBeginSymbol
    \/ WalkLevel
    \/ AfterFirstOrder
    \/ AfterRetryOrder
    \/ SymbolDone
    \/ EndActions

SpecCycle == InitCycle /\ [][NextCycle]_vars

\* ------------------------------------------------------------------------
\* utils.get_access_token
\* ------------------------------------------------------------------------

\* timedelta(hours=24), in hours.
TOKEN_HOURS == 24

\* The content of access_token.json: no file ("absent"), a JSON object with
\* a token and a parseable timestamp ("good"), a JSON object that lacks one
\* of the two ("partial"), something json.load or fromisoformat raises on
\* ("corrupt"), or what a failed json.dump leaves behind ("truncated").
File(kind, access_token, timestamp) ==
    [kind |-> kind, access_token |-> access_token, timestamp |-> timestamp]
Absent == File("absent", None, 0)
Good(access_token, timestamp) == File("good", access_token, timestamp)
InitialFiles ==
    {Absent, Good("T0", 0), File("partial", "T0", 0), File("corrupt", None, 0)}

\* What the auth server can answer to the request of a new token: a token,
\* an answer without 'access_token', or a failed request.
Tokens == {"T1", "T2"}
AuthReplies == Tokens \cup {"NO_TOKEN", "REQUEST_FAILED"}

\* What can happen to the write of the cache file.
WriteOutcomes == {"ok", "open_fails", "dump_fails"}

UnexpiredAtLimit(call_time, token_time) == call_time - token_time <= TOKEN_HOURS

UnexpiredBeforeLastHour(call_time, token_time) ==
    call_time - token_time < TOKEN_HOURS - 1

\* now - token_time < datetime.timedelta(hours=24)
Unexpired(call_time, token_time) == call_time - token_time < TOKEN_HOURS

DeleteFailureEscapes == FALSE

\* The os.remove of the `except Exception` branch is in a try of its own.
DeleteFailureCaught == TRUE

\* What a call of get_access_token did: when it was made, the file it found
\* and whether it could read it, the return statement it left by, the value
\* returned, the new-token requests sent and the answer, whether os.remove
\* removed the file, and how the write went.
CallRecord(at, before, readable, source, returned, requests, reply, removed, write) ==
    [at |-> at, before |-> before, readable |-> readable, source |-> source,
     returned |-> returned, requests |-> requests, reply |-> reply,
     removed |-> removed, write |-> write]

\* One call of get_access_token().
GetAccessToken ==
    /\ \E readable \in BOOLEAN, removable \in BOOLEAN, reply \in AuthReplies,
          write \in WriteOutcomes :
         LET exists == token_file.kind # "absent"
             loaded == exists /\ readable /\ token_file.kind \in {"good", "partial"}
             hit == /\ loaded
                    /\ token_file.kind = "good"
                    /\ Unexpired(now, token_file.timestamp)
             removed == exists /\ ~hit /\ removable
             raised == exists /\ ~hit /\ ~removable /\ ~DeleteFailureCaught
             kept == IF removed THEN Absent ELSE token_file
             issued == reply \in Tokens
             stored == IF ~issued \/ write = "open_fails" THEN kept
                       ELSE IF write = "dump_fails" THEN File("truncated", None, 0)
                       ELSE Good(reply, now)
         IN  \* an outcome is drawn only for the steps the call comes to
             /\ (~exists \/ token_file.kind \notin {"good", "partial"}) => readable
             /\ (~exists \/ hit) => removable
             /\ (hit \/ raised) => reply = "NO_TOKEN"
             /\ ~(issued /\ ~hit /\ ~raised) => write = "ok"
             /\ IF hit
               THEN /\ last_call' = CallRecord(now, token_file, TRUE, "cache",
                                               token_file.access_token, 0, None,
                                               FALSE, None)
                    /\ UNCHANGED token_file
               ELSE IF raised
               THEN /\ last_call' = CallRecord(now, token_file, readable,
                                               "raised", None, 0, None, FALSE, None)
                    /\ UNCHANGED token_file
               ELSE /\ last_call' = CallRecord(now, token_file, readable,
                          IF issued /\ write = "ok" THEN "auth" ELSE "none",
                          IF issued /\ write = "ok" THEN reply ELSE None,
                          1, reply, removed, IF issued THEN write ELSE None)
                    /\ token_file' = stored
    /\ UNCHANGED <<now, routerVars, mainVars, priceVars, ladderVars>>

\* An hour passes; the call of the hour before is history.
Tick ==
    /\ now < MaxClock
    /\ now' = now + 1
    /\ last_call' = NoCall
    /\ UNCHANGED <<token_file, routerVars, mainVars, priceVars, ladderVars>>

InitToken ==
    /\ RouterIdle
    /\ calls = <<>>
    /\ pc = "token"
    /\ total_purchase_cash = 0
    /\ NoWalk
    /\ NoCycle
    /\ NoSell
    /\ NoGateway
    /\ token_file \in InitialFiles
    /\ now = 0
    /\ last_call = NoCall

NextToken == GetAccessToken \/ Tick

SpecToken == InitToken /\ [][NextToken]_vars

\* ------------------------------------------------------------------------
\* TradingAPI.get_current_price
\* ------------------------------------------------------------------------

\* A field of a provider's answer as the code tests it: whether it is given
\* (not None and not the empty string), whether float() or int() accepts
\* it, and the number it is then.
Field(given, number, value) == [given |-> given, number |-> number, value |-> value]
NoField == Field(FALSE, FALSE, 0)
TextField == Field(TRUE, FALSE, 0)
NumberField(value) == Field(TRUE, TRUE, value)

\* The answer of the provider to one price query: the transport outcome,
\* the HTTP status, whether the body is JSON, rt_cd, whether 'output' is
\* there and not empty, and its field 'last'.
Quote(transport, status, json, rt_cd, output, last) ==
    [transport |-> transport, status |-> status, json |-> json, rt_cd |-> rt_cd,
     output |-> output, last |-> last]
Quoted(last) == Quote("ok", 200, TRUE, "0", TRUE, last)
QuoteReplies ==
    {Quote("timeout", 0, FALSE, None, FALSE, NoField),
     Quote("ok", 500, FALSE, None, FALSE, NoField),
     Quote("ok", 200, FALSE, None, FALSE, NoField),
     Quote("ok", 200, TRUE, "1", FALSE, NoField),
     Quote("ok", 200, TRUE, "0", FALSE, NoField),
     Quoted(NoField), Quoted(TextField),
     Quoted(NumberField(0)), Quoted(NumberField(0 - 15000))}
    \cup {Quoted(NumberField(p)) : p \in LivePrices}

exchange_order_reordered == <<"NYS", "NAS", "AMS">>

\* exchange_order = ['NAS', 'NYS', 'AMS']
exchange_order == <<"NAS", "NYS", "AMS">>

\* The body of the try of one iteration reaches `return last_price`: no
\* exception, rt_cd '0', an 'output', a 'last' that float() accepts.
QuoteGivesPrice(reply) ==
    /\ reply.transport = "ok"
    /\ reply.status = 200
    /\ reply.json
    /\ reply.rt_cd = "0"
    /\ reply.output
    /\ reply.last.given
    /\ reply.last.number

Asked(excd, reply) == [excd |-> excd, reply |-> reply]
Returned(price) == [returned |-> TRUE, price |-> price]

\* One iteration of `for excd in exchange_order`.
QuoteVenue ==
    /\ pc = "price"
    /\ ~quote_result.returned
    /\ qx <= Len(exchange_order)
    /\ \E reply \in QuoteReplies :
         /\ quotes' = Append(quotes, Asked(exchange_order[qx], reply))
         /\ IF QuoteGivesPrice(reply)
            THEN /\ quote_result' = Returned(reply.last.value)
                 /\ UNCHANGED qx
            ELSE /\ qx' = qx + 1
                 /\ UNCHANGED quote_result
    /\ UNCHANGED <<routerVars, mainVars, tokenVars, ladderVars>>

\* After the loop: `return None`.
AllQuotesFailed ==
    /\ pc = "price"
    /\ ~quote_result.returned
    /\ qx > Len(exchange_order)
    /\ quote_result' = Returned(NoPrice)
    /\ UNCHANGED <<qx, quotes, routerVars, mainVars, tokenVars, ladderVars>>

InitPrice ==
    /\ RouterIdle
    /\ calls = <<>>
    /\ pc = "price"
    /\ total_purchase_cash = 0
    /\ NoWalk
    /\ NoCycle
    /\ NoSell
    /\ NoToken
    /\ NoGateway

NextPrice == QuoteVenue \/ AllQuotesFailed

SpecPrice == InitPrice /\ [][NextPrice]_vars

\* ------------------------------------------------------------------------
\* The ladder gateway: TradingAPI.get_asking_price_10
\* ------------------------------------------------------------------------

\* One slot i of 'output2': the fields pask<i> and vask<i>.
Ask(pask, vask) == [pask |-> pask, vask |-> vask]

\* The values a provider can put in pask<i>: nothing, text, "0", "-1.50",
\* "95.00", "96.00"; and in vask<i>: nothing, text, "0", "5".
PaskFields ==
    {NoField, TextField, NumberField(0), NumberField(0 - 15000),
     NumberField(950000), NumberField(960000)}
VaskFields == {NoField, TextField, NumberField(0), NumberField(5)}
AskSet == {Ask(p, v) : p \in PaskFields, v \in VaskFields}

RECURSIVE AsksOfLength(_)
AsksOfLength(k) ==
    IF k = 0 THEN {<<>>}
    ELSE {Append(a, x) : a \in AsksOfLength(k - 1), x \in AskSet}

\* The answer of the provider to the ladder query: the transport outcome,
\* the HTTP status, whether the body is JSON, rt_cd, whether 'output2' is
\* there and not empty, and its slots.
LadderReply(transport, status, json, rt_cd, output2, asks) ==
    [transport |-> transport, status |-> status, json |-> json, rt_cd |-> rt_cd,
     output2 |-> output2, asks |-> asks]
LadderReplies ==
    {LadderReply("timeout", 0, FALSE, None, FALSE, <<>>),
     LadderReply("ok", 500, FALSE, None, FALSE, <<>>),
     LadderReply("ok", 200, FALSE, None, FALSE, <<>>),
     LadderReply("ok", 200, TRUE, "1", FALSE, <<>>),
     LadderReply("ok", 200, TRUE, "0", FALSE, <<>>)}
    \cup {LadderReply("ok", 200, TRUE, "0", TRUE, a) : a \in AsksOfLength(MaxAsks)}

\* `if price and volume:` and the float() and int() of the try.
AskKept(ask) ==
    /\ ask.pask.given
    /\ ask.vask.given
    /\ ask.pask.number
    /\ ask.vask.number

\* The loop `for i in range(1, 11)`: the slots kept, in the order of i.
RECURSIVE KeptLevels(_)
KeptLevels(asks) ==
    IF asks = <<>> THEN <<>>
    ELSE LET rest == KeptLevels(SubSeq(asks, 1, Len(asks) - 1))
             ask == asks[Len(asks)]
         IN  IF AskKept(ask)
             THEN Append(rest, Level(ask.pask.value, ask.vask.value))
             ELSE rest

\* What get_asking_price_10 returns: (None, message), ([], None) or
\* (asking_prices, None).
AskError(message) == [is_none |-> TRUE, asking_prices |-> <<>>, error |-> message]
AskLadder(ladder) == [is_none |-> FALSE, asking_prices |-> ladder, error |-> None]

get_asking_price_10(reply) ==
    IF reply.transport # "ok" THEN AskError("request")
    ELSE IF reply.status # 200 THEN AskError("http")
    ELSE IF ~reply.json THEN AskError("value")
    ELSE IF reply.rt_cd # "0" THEN AskError("rt_cd")
    ELSE IF ~reply.output2 THEN AskError("no_output2")
    ELSE AskLadder(SortedByPrice(KeptLevels(reply.asks)))

\* One call of get_asking_price_10.
GetAskingPrice10 ==
    /\ pc = "ladder"
    /\ ~ask_call.called
    /\ \E reply \in LadderReplies :
         LET r == get_asking_price_10(reply)
         IN  ask_call' = [called |-> TRUE, reply |-> reply, is_none |-> r.is_none,
                          asking_prices |-> r.asking_prices, error |-> r.error]
    /\ UNCHANGED <<routerVars, mainVars, tokenVars, priceVars>>

InitLadder ==
    /\ RouterIdle
    /\ calls = <<>>
    /\ pc = "ladder"
    /\ total_purchase_cash = 0
    /\ NoWalk
    /\ NoCycle
    /\ NoSell
    /\ NoToken
    /\ NoGateway

NextLadder == GetAskingPrice10

SpecLadder == InitLadder /\ [][NextLadder]_vars

\* ------------------------------------------------------------------------
\* Properties of the order router
\* ------------------------------------------------------------------------

\* The order requests the call in progress has sent, in order.
Orders == SelectSeq(trace, LAMBDA e : e.ev = "order")

\* The priority list of the venues.
VenuePriority == <<"NASD", "NYSE", "AMEX">>
Rank(venue) == CHOOSE i \in 1..Len(VenuePriority) : VenuePriority[i] = venue

\* Request i is the first one its venue gets in this call.
FirstToVenue(o, i) == i = 1 \/ o[i - 1].venue # o[i].venue

\* C1: one call sends its order requests to NASD, then NYSE, then AMEX:
\* the first request goes to NASD, each later request goes to the next venue
\* of the list or, once, to the same venue after a rate-limited answer, a
\* request follows only a non-success answer, and a call that ends with all
\* venues failed has reached AMEX.
C1_VenueOrder ==
    LET o == Orders
    IN  /\ Len(o) >= 1 => o[1].venue = VenuePriority[1]
        /\ \A i \in 1..(Len(o) - 1) :
             /\ o[i].outcome # "OK"
             /\ \/ Rank(o[i + 1].venue) = Rank(o[i].venue) + 1
                \/ /\ o[i + 1].venue = o[i].venue
                   /\ o[i].outcome = "RATE_LIMIT"
                   /\ FirstToVenue(o, i)
        /\ (rpc = "done" /\ result.error = "ALL_EXCHANGES_FAILED")
             => (Len(o) >= Len(VenuePriority)
                 /\ o[Len(o)].venue = VenuePriority[Len(VenuePriority)])

C1_Witness ==
    /\ rpc = "done"
    /\ result.error = "ALL_EXCHANGES_FAILED"
    /\ [i \in 1..Len(Orders) |-> Orders[i].venue] = VenuePriority

\* C2: a rate-limited answer to the first request to a venue is followed,
\* after the 1 second sleep, by exactly one more request to the same venue
\* before the call moves on or returns.
C2_RateLimitRetriesSameVenue ==
    LET o == Orders
    IN  \A i \in 1..Len(o) :
          (/\ o[i].outcome = "RATE_LIMIT"
           /\ FirstToVenue(o, i)
           /\ (i < Len(o) \/ rpc = "done"))
          => (i < Len(o) /\ o[i + 1].venue = o[i].venue)

C5_UnmappedSideFailsAtOnce ==
    (rpc # "idle" /\ Upper(args.order_type) \notin {"BUY", "SELL"})
    => /\ rpc = "done"
       /\ ~result.success
       /\ result.error \notin {"ALL_EXCHANGES_FAILED", "NOT_RETURNED"}
       /\ trace = <<>>
       /\ \A i \in 1..Len(calls) : ~calls[i].accepted

C5_Witness ==
    /\ rpc = "done"
    /\ args.order_type = "HOLD"
    /\ result = Failure("TR_ID_NOT_FOUND")
    /\ trace = <<>>

\* C6: every order request comes right after a hash obtained for the same
\* venue, and a failed hash request is the last thing the call does: it has
\* returned a failure, with no order sent to that venue or to a later one.
C6_HashBeforeEveryOrder ==
    \A i \in 1..Len(trace) :
      /\ trace[i].ev = "order"
           => (i > 1 /\ trace[i - 1] = Event("hash", trace[i].venue, "HASH"))
      /\ (trace[i].ev = "hash" /\ trace[i].outcome = "NONE")
           => (i = Len(trace) /\ rpc = "done" /\ ~result.success)

C6_Witness ==
    /\ rpc = "done"
    /\ Len(trace) = 3
    /\ trace[2] = Event("order", "NASD", "FAILED")
    /\ trace[3] = Event("hash", "NYSE", "NONE")
    /\ result = Failure("HASHKEY_FAILED")

\* ------------------------------------------------------------------------
\* Properties of the buy phase
\* ------------------------------------------------------------------------

\* The returned BUY calls made for a symbol, in order.
CallsFor(symbol) ==
    SelectSeq(calls, LAMBDA c : c.symbol = symbol /\ c.side = "BUY")

RECURSIVE Cost(_)
\* Sum of quantity times limit price over the accepted calls of a sequence.
Cost(cs) ==
    IF cs = <<>> THEN 0
    ELSE Cost(Tail(cs))
         + (IF Head(cs).accepted THEN Head(cs).quantity * Head(cs).price ELSE 0)

\* The walk of the current symbol has ended.
WalkOver ==
    \/ pc = "symbol_done"
    \/ pc = "for_ask" /\ li > Len(asking_prices_sorted)

\* C7: for every symbol, the accepted BUY orders cost, at the limit prices
\* at which they were accepted, no more than the budget C/n of the symbol.
C7_BudgetNeverExceeded ==
    \A i \in 1..n : Cost(CallsFor(actions[i])) * n <= total_purchase_cash

\* C/n < 0.01
BudgetBelowOneCent == n >= 1 /\ total_purchase_cash * 100 < n * Unit

\* C8: when C/n is below 0.01, every symbol processed so far has exactly one
\* insufficiency entry and nothing else has happened: no ladder request, no
\* call of the router, no fill; the phase ends after all n symbols.
C8_BelowMinimumSkipsAll ==
    (pc # "buy_start" /\ BudgetBelowOneCent)
    => /\ pc \in {"for_action", "end"}
       /\ pc = "end" => ai = n + 1
       /\ Len(insufficient_buy_messages) = ai - 1
       /\ \A i \in 1..(ai - 1) :
            /\ insufficient_buy_messages[i].symbol = actions[i]
            /\ insufficient_buy_messages[i].reason = "BELOW_MIN_BUY_AMOUNT"
       /\ ladder_calls = <<>>
       /\ calls = <<>>
       /\ rpc = "idle"
       /\ buy_quantities = <<>>
       /\ total_bought = 0
       /\ bought_stocks = 0
       /\ buy_summary = <<>>

C8_Witness ==
    /\ pc = "end"
    /\ n = 2
    /\ total_purchase_cash = Unit \div 100
    /\ Len(insufficient_buy_messages) = 2

RECURSIVE Plan(_, _, _, _)
\* The quantities the ladder walk is to order from level i on, with budget
\* b (a numerator over n) and d shares still desired: at each level
\* min(volume, floor(budget / price), desired), a level that gives less
\* than one share being passed over.
Plan(ladder, i, b, d) ==
    IF i > Len(ladder) \/ d <= 0 THEN <<>>
    ELSE LET p == ladder[i].price
             v == ladder[i].volume
             q == IF p <= 0 THEN 0 ELSE Min(v, Min(b \div (n * p), d))
         IN  IF q < 1 THEN Plan(ladder, i + 1, b, d)
             ELSE <<q>> \o Plan(ladder, i + 1, b - n * q * p, d - q)

\* floor(B / lowest positive price), 1 standing for the price when no price
\* is positive.
Desired(ladder) ==
    LET positive == {j \in 1..Len(ladder) : ladder[j].price > 0}
        lowest == IF positive = {} THEN Unit
                  ELSE ladder[CHOOSE j \in positive :
                                \A k \in positive : ladder[j].price <= ladder[k].price].price
    IN  total_purchase_cash \div (n * lowest)

Ascending(ladder) ==
    \A i \in 1..(Len(ladder) - 1) : ladder[i].price <= ladder[i + 1].price

\* The calls made so far for the symbol being walked.
WalkCalls == CallsFor(actions[ai])

FirstAttemptsAccepted == \A i \in 1..Len(WalkCalls) : WalkCalls[i].accepted

InWalk == pc \in {"for_ask", "first_order", "retry_order", "symbol_done"}

\* C9: while every order is accepted on its first attempt, the ladder is
\* walked in ascending price order and the quantities ordered are those of
\* Plan, all of them once the walk has ended; for the scenario ladder and
\* budget 100 the walk makes exactly two orders, 5 at 9.50 then 5 at 9.60,
\* fills 10 and orders nothing at 9.80.
C9_WalkFollowsPlan ==
    (InWalk /\ FirstAttemptsAccepted)
    => LET plan == Plan(asking_prices_sorted, 1, total_purchase_cash,
                        Desired(asking_prices_sorted))
           made == IF rpc = "venue"
                   THEN Append([i \in 1..Len(WalkCalls) |-> WalkCalls[i].quantity],
                               args.quantity)
                   ELSE [i \in 1..Len(WalkCalls) |-> WalkCalls[i].quantity]
       IN  /\ Ascending(asking_prices_sorted)
           /\ Len(made) <= Len(plan)
           /\ made = SubSeq(plan, 1, Len(made))
           /\ WalkOver => made = plan
           /\ (/\ WalkOver
               /\ asking_prices_sorted = ScenarioLadder
               /\ total_purchase_cash = 100 * Unit * n)
              => /\ WalkCalls =
                      <<[symbol |-> actions[ai], side |-> "BUY", quantity |-> 5,
                         price |-> 95000, accepted |-> TRUE],
                        [symbol |-> actions[ai], side |-> "BUY", quantity |-> 5,
                         price |-> 96000, accepted |-> TRUE]>>
                 /\ total_bought = 10
                 /\ buy_quantities = <<[price |-> 95000, quantity |-> 5],
                                       [price |-> 96000, quantity |-> 5]>>

C9_Witness ==
    /\ WalkOver
    /\ FirstAttemptsAccepted
    /\ asking_prices_sorted = ScenarioLadder
    /\ total_purchase_cash = 100 * Unit * n
    /\ Len(WalkCalls) = 2
    /\ total_bought = 10

\* No level of the walk was abandoned: every rejected call was followed by
\* an accepted retry.
NoLevelAbandoned ==
    \A i \in 1..Len(WalkCalls) :
      ~WalkCalls[i].accepted => (i < Len(WalkCalls) /\ WalkCalls[i + 1].accepted)

ScenarioWalked ==
    /\ WalkOver
    /\ asking_prices_sorted = ScenarioLadder
    /\ total_purchase_cash = 100 * Unit * n
    /\ NoLevelAbandoned

\* C10 as stated: after the scenario walk the remaining budget is 23.5.
C10_ScenarioRemainder_23_5 ==
    ScenarioWalked => buy_amount = 235000 * n

\* C10: after the scenario walk with every order accepted, the remaining
\* budget of the symbol is 100 - 5*9.50 - 5*9.60 = 4.5.
C10_ScenarioRemainder ==
    ScenarioWalked => buy_amount = 45000 * n

C10_Witness ==
    /\ ScenarioWalked
    /\ Len(buy_quantities) = 2
    /\ buy_amount = 45000 * n

\* The walk of the current symbol is at its start: no level examined yet.
WalkStart == pc = "for_ask" /\ li = 1

\* C11: every symbol starts its ladder walk with the budget C/n and the
\* desired quantity computed from C/n, whatever the earlier symbols of the
\* cycle spent or left unspent.
C11_EqualShareAtWalkStart ==
    WalkStart =>
        /\ buy_amount = total_purchase_cash
        /\ desired_quantity =
               IntDiv(total_purchase_cash, n * MinPositivePrice(asking_prices_sorted))
        /\ remaining_quantity = desired_quantity

\* The second symbol starts its walk after the first one spent a part of
\* its budget and left the rest.
C11_Witness ==
    /\ WalkStart
    /\ ai = 2
    /\ Cost(CallsFor(actions[1])) > 0
    /\ Cost(CallsFor(actions[1])) * n < total_purchase_cash
    /\ buy_amount = total_purchase_cash

\* main hands an order to send_order.
Submits == rpc # "venue" /\ rpc' = "venue"

\* C26: whenever the driver submits an order, the pacing delay has run
\* since its previous submission, whether that one succeeded or failed.
C26_DelayAfterEverySubmission == [][Submits => paced]_vars

\* The part of C26 the code keeps in the buy phase: the delay has run
\* after every accepted BUY.
C26_DelayAfterAcceptedOrder ==
    [][(Submits /\ calls # <<>> /\ calls[Len(calls)].accepted) => paced]_vars

\* r is x rounded to a multiple of step, a tie going to the even multiple.
IsRounded(r, x, step) ==
    /\ r % step = 0
    /\ 2 * (r - x) <= step
    /\ 2 * (x - r) <= step
    /\ (2 * (r - x) = step \/ 2 * (x - r) = step) => (r \div step) % 2 = 0

\* The level of the ladder the walk is at.
LevelPrice == asking_prices_sorted[li].price

\* C28: the first call of the router for a level is at round(p, 2); a
\* second call is made only after the first has returned failure, at
\* round(p, 0) and for the same quantity; there is no third call; after the
\* second failure the budget, the remaining desired quantity and the fill
\* list are unchanged and the walk is at the next level.
C28_RetryOnceAtIntegerPrice ==
    [][/\ (pc = "for_ask" /\ pc' = "first_order") =>
             /\ IsRounded(args'.order_price, LevelPrice, Unit \div 100)
             /\ args'.quantity = buy_quantity'
             /\ args'.order_type = "BUY"
       /\ (pc = "first_order" /\ pc' = "retry_order") =>
             /\ rpc = "done" /\ ~result.success
             /\ IsRounded(args'.order_price, LevelPrice, Unit)
             /\ args'.quantity = args.quantity
             /\ args'.order_type = "BUY"
             /\ li' = li
       /\ (pc = "first_order" /\ pc' \notin {"first_order", "retry_order"}) =>
             result.success
       /\ (Submits /\ pc' \in {"first_order", "retry_order"}) =>
             pc \in {"for_ask", "first_order"}
       /\ (pc = "retry_order" /\ pc' # "retry_order") =>
             /\ ~Submits
             /\ ~result.success =>
                   /\ buy_amount' = buy_amount
                   /\ remaining_quantity' = remaining_quantity
                   /\ buy_quantities' = buy_quantities
                   /\ pc' = "for_ask"
                   /\ li' = li + 1
      ]_vars

\* The BUY of 5 at 9.50 and its retry at 10 have both failed, and the walk
\* is at the second level with the budget of 96 untouched.
C28_Witness ==
    /\ pc = "for_ask"
    /\ li = 2
    /\ Len(calls) = 2
    /\ calls[1].price = 95000 /\ ~calls[1].accepted /\ calls[1].quantity = 5
    /\ calls[2].price = 10 * Unit /\ ~calls[2].accepted /\ calls[2].quantity = 5
    /\ buy_amount = OverN(96 * Unit)
    /\ buy_quantities = <<>>

\* The quantities of the walk: the total filled is the sum of the fill
\* list, does not exceed desired_quantity, and with the remaining desired
\* quantity makes up desired_quantity.
RECURSIVE FilledQuantity(_)
FilledQuantity(fills) ==
    IF fills = <<>> THEN 0
    ELSE FilledQuantity(SubSeq(fills, 1, Len(fills) - 1)) + fills[Len(fills)].quantity

WalkQuantities ==
    /\ total_bought = FilledQuantity(buy_quantities)
    /\ total_bought <= desired_quantity
    /\ total_bought + remaining_quantity = desired_quantity

\* C29 as stated: during a ladder walk the total filled never exceeds
\* desired_quantity, total filled plus remaining desired equals
\* desired_quantity, and while remaining desired is <= 0 no level is
\* examined and no BUY is submitted.
C29_NoLevelExaminedAtZeroRemaining ==
    [][InWalk =>
         /\ WalkQuantities
         /\ remaining_quantity <= 0 =>
               /\ ~Submits
               /\ ~(pc = "for_ask" /\ (li' # li \/ pc' = "first_order"))
      ]_vars

\* C29, amended: during a ladder walk the total filled never exceeds
\* desired_quantity and total filled plus remaining desired equals
\* desired_quantity; a BUY in flight is for no more than the remaining
\* desired quantity, which is above 0; once a fill has brought the
\* remaining desired quantity to 0 the walk is over, at the level of that
\* fill; when desired_quantity is 0 nothing is filled.
C29_WalkStopsWhenDesiredReached ==
    InWalk =>
      /\ WalkQuantities
      /\ remaining_quantity >= 0
      /\ pc \in {"first_order", "retry_order"} =>
            /\ remaining_quantity >= 1
            /\ buy_quantity <= remaining_quantity
            /\ args.quantity = buy_quantity
      /\ (remaining_quantity <= 0 /\ desired_quantity > 0) =>
            /\ pc = "symbol_done"
            /\ li <= Len(asking_prices_sorted)
            /\ buy_quantities # <<>>
      /\ pc = "symbol_done" => remaining_quantity <= 0
      /\ desired_quantity = 0 => (buy_quantities = <<>> /\ pc = "for_ask")

\* The scenario: 5 filled at 9.50 and 5 at 9.60 reach the desired 10, and
\* the walk is over with the third level not examined.
C29_Witness ==
    /\ pc = "symbol_done"
    /\ asking_prices_sorted = ScenarioLadder
    /\ li = 2
    /\ desired_quantity = 10
    /\ total_bought = 10
    /\ remaining_quantity = 0

\* A budget below the lowest price: desired_quantity is 0 and the walk has
\* gone past the first level.
C29_ZeroDesiredWalked ==
    /\ pc = "for_ask"
    /\ desired_quantity = 0
    /\ li = 2

\* The order requests the call in progress has sent to the venues.
VenueRequests == SelectSeq(trace, LAMBDA e : e.ev = "order")

\* C30: every ladder walk terminates, whatever the ladder and the outcomes
\* of the router are; it has made at most 2 calls of the router for each
\* level it has been at, each call sends at most 3 order requests to the
\* venues, and the walk ends only when the ladder is exhausted or the
\* remaining desired quantity is <= 0.
C30_WalkTerminates ==
    /\ [](InWalk =>
            /\ li <= Len(asking_prices_sorted) + 1
            /\ Len(WalkCalls) <= 2 * (IF pc = "for_ask" THEN li - 1 ELSE li)
            /\ Len(VenueRequests) <= 3
            /\ ex <= 4)
    /\ [][(InWalk /\ ~InWalk') =>
            \/ li > Len(asking_prices_sorted)
            \/ remaining_quantity <= 0]_vars
    /\ (InWalk ~> ~InWalk)

\* Both levels of a ladder have had their BUY and its retry rejected by all
\* three venues, and the walk has come to the end of the ladder.
C30_Witness ==
    /\ pc = "for_ask"
    /\ Len(asking_prices_sorted) = 2
    /\ li = 3
    /\ Len(WalkCalls) = 4
    /\ \A k \in 1..4 : ~WalkCalls[k].accepted
    /\ total_bought = 0

\* The BUY calls of the walk that a venue accepted, in order.
AcceptedWalkCalls == SelectSeq(WalkCalls, LAMBDA c : c.accepted)

\* C33: once main has dealt with the result of its last order, the fill
\* list of the symbol has one entry for each accepted BUY,
\* in order, with the quantity and the limit price of the accepted order
\* (round(p, 2), or round(p, 0) when the retry was the accepted one); the
\* remaining desired quantity has been decremented once for each.
C33_FillRecordsAcceptedPrice ==
    (InWalk /\ rpc # "done") =>
      /\ Len(buy_quantities) = Len(AcceptedWalkCalls)
      /\ \A k \in 1..Len(buy_quantities) :
           /\ buy_quantities[k].quantity = AcceptedWalkCalls[k].quantity
           /\ buy_quantities[k].price = AcceptedWalkCalls[k].price
      /\ remaining_quantity =
           desired_quantity - FilledQuantity(buy_quantities)

\* The part of C33 the code keeps: one entry for each accepted BUY with
\* its quantity, the price of the entry being round(p, 2) of the level, and
\* the remaining desired quantity decremented once for each.
C33_FillQuantitiesAndDecrements ==
    (InWalk /\ rpc # "done") =>
      /\ Len(buy_quantities) = Len(AcceptedWalkCalls)
      /\ \A k \in 1..Len(buy_quantities) :
           /\ buy_quantities[k].quantity = AcceptedWalkCalls[k].quantity
           /\ buy_quantities[k].price % (Unit \div 100) = 0
           /\ buy_quantities[k].price # AcceptedWalkCalls[k].price =>
                 AcceptedWalkCalls[k].price % Unit = 0
      /\ remaining_quantity =
           desired_quantity - FilledQuantity(buy_quantities)

\* The price of the level of the ladder a fill was made at: the level, among
\* those the walk has been at, whose round(price, 2) is the price of the
\* fill.
LevelPriceOf(fill) ==
    LET k == CHOOSE k \in 1..Min(li, Len(asking_prices_sorted)) :
                 IsRounded(fill.price, asking_prices_sorted[k].price, Unit \div 100)
    IN  asking_prices_sorted[k].price

\* The sum over the fills of quantity times level price.
RECURSIVE Accounted(_)
Accounted(fills) ==
    IF fills = <<>> THEN 0
    ELSE Accounted(SubSeq(fills, 1, Len(fills) - 1))
         + fills[Len(fills)].quantity * LevelPriceOf(fills[Len(fills)])

\* C35: throughout a ladder walk with a budget above 0 the remaining budget
\* of the symbol is not negative; once main has dealt with the result of
\* its last order it is the budget less the sum over the fills of quantity
\* times level price, so that this sum does not exceed the budget.
C35_BudgetLeftNeverNegative ==
    (InWalk /\ total_purchase_cash > 0) =>
      /\ buy_amount >= 0
      /\ buy_amount <= total_purchase_cash
      /\ rpc # "done" =>
            /\ buy_amount + n * Accounted(buy_quantities) = total_purchase_cash
            /\ n * Accounted(buy_quantities) <= total_purchase_cash

\* A budget of 96 and 10 filled at 9.60: the walk is over with nothing
\* left of the budget.
C35_Witness ==
    /\ pc = "symbol_done"
    /\ n = 1
    /\ total_purchase_cash = 96 * Unit
    /\ buy_quantities = <<[price |-> 96000, quantity |-> 10]>>
    /\ buy_amount = 0

\* C36: every BUY the ladder walk hands to the router, first attempt or
\* retry, has a limit price above 0.
C36_BuyLimitPriceIsPositive ==
    /\ (rpc # "idle" /\ Upper(args.order_type) = "BUY") => args.order_price > 0
    /\ \A k \in 1..Len(calls) : calls[k].side = "BUY" => calls[k].price > 0

\* The part of C36 the code keeps: a level is ordered only if its price is
\* above 0, and the limit price is never below 0.
C36_OrderedLevelPriceIsPositive ==
    /\ pc \in {"first_order", "retry_order"} => asking_prices_sorted[li].price > 0
    /\ \A k \in 1..Len(calls) : calls[k].price >= 0

\* ------------------------------------------------------------------------
\* Properties of the sell phase
\* ------------------------------------------------------------------------

\* The entries of a list that are about a symbol.
About(list, symbol) == SelectSeq(list, LAMBDA e : e.symbol = symbol)

\* The classification loop has dealt with the i-th holding.
Classified(i) ==
    \/ pc = "classify" /\ i < si
    \/ pc \in {"profit_pass", "profit_order", "stop_pass", "stop_order",
               "sell_end", "raised"}

\* The i-th holding was not excluded by its entry date.
Evaluated(i) ==
    /\ Classified(i)
    /\ buy_date_calls[i].buy_date # NoDate
    /\ buy_date_calls[i].buy_date # today

\* entry_price != 0 and (current_price - entry_price) / entry_price * 100 > 0
GainOnEntry(h) ==
    /\ h.buy_price # 0
    /\ \/ h.current_price > h.buy_price /\ h.buy_price > 0
       \/ h.current_price < h.buy_price /\ h.buy_price < 0

\* C12: an evaluated position is in the profit-taking bucket exactly when its
\* entry price is not 0 and its profit percentage on the snapshot price is
\* above 0, and in the stop-loss-candidate bucket otherwise, in exactly one
\* of the two and once; 100/110 is profit-taking, 100/100 and entry 0 are
\* stop-loss candidates; the classification loop does not raise.
C12_ClassificationBySnapshot ==
    /\ \A i \in 1..Len(positions) :
         Evaluated(i) =>
           LET h == positions[i]
               inProfit == Len(About(profitable_positions, h.symbol))
               inStop == Len(About(non_profitable_positions, h.symbol))
           IN  /\ inProfit + inStop = 1
               /\ inProfit = 1 <=> GainOnEntry(h)
               /\ (h.buy_price = 100 * Unit /\ h.current_price = 110 * Unit)
                     => inProfit = 1
               /\ (h.buy_price = 100 * Unit /\ h.current_price = 100 * Unit)
                     => inStop = 1
               /\ h.buy_price = 0 => inStop = 1
    /\ pc = "raised" => price_calls # <<>>

\* Two holdings are classified: 100/110 is in the profit-taking bucket and
\* entry 0 is a stop-loss candidate.
C12_Witness ==
    /\ pc = "profit_pass"
    /\ Len(positions) = 2
    /\ Evaluated(1) /\ Evaluated(2)
    /\ positions[1].buy_price = 100 * Unit /\ positions[1].current_price = 110 * Unit
    /\ positions[2].buy_price = 0
    /\ About(profitable_positions, positions[1].symbol) # <<>>
    /\ About(non_profitable_positions, positions[2].symbol) # <<>>

\* No SELL has been handed to the router or is known to it for a symbol.
NeverSold(symbol) ==
    /\ About(sell_orders, symbol) = <<>>
    /\ About(calls, symbol) = <<>>
    /\ args.symbol # symbol

\* C13: a position whose entry date is not resolved, or is today, is in
\* neither bucket and no SELL is submitted for it.
C13_ExcludedNeverSold ==
    \A i \in 1..Len(positions) :
      (Classified(i) /\ ~Evaluated(i)) =>
        /\ About(profitable_positions, positions[i].symbol) = <<>>
        /\ About(non_profitable_positions, positions[i].symbol) = <<>>
        /\ About(price_calls, positions[i].symbol) = <<>>
        /\ NeverSold(positions[i].symbol)

\* The cycle ends with a profitable position bought today left alone while
\* the other position was sold.
C13_Witness ==
    /\ pc = "sell_end"
    /\ Len(positions) = 2
    /\ buy_date_calls[1].buy_date = today
    /\ GainOnEntry(positions[1])
    /\ positions[1].buy_quantity > 0
    /\ sell_orders # <<>>

\* The SELL calls of the router for a symbol all carry this quantity and,
\* in the payload, this limit price.
RouterSells(symbol, quantity, limit_price) ==
    /\ \A k \in 1..Len(calls) :
         calls[k].symbol = symbol =>
           /\ calls[k].side = "SELL"
           /\ calls[k].quantity = quantity
           /\ calls[k].price = Fmt2(limit_price)
    /\ args.symbol = symbol =>
           /\ args.order_type = "SELL"
           /\ args.quantity = quantity
           /\ args.order_price = limit_price

\* C14: a SELL of the profit-taking pass is submitted only after the price
\* fetched in that pass was found and is above the entry price, at that
\* price and for the whole held quantity; a position of the pass whose fresh
\* price is not found or is not above the entry price gets no SELL at all.
C14_ProfitSellOnFreshPrice ==
    \A j \in 1..Len(profitable_positions) :
      LET p == profitable_positions[j]
          fetched == SelectSeq(About(price_calls, p.symbol),
                               LAMBDA c : c.pass = "profit")
          sold == About(sell_orders, p.symbol)
      IN  /\ Len(fetched) <= 1
          /\ Len(sold) <= 1
          /\ About(price_calls, p.symbol) = fetched
          /\ sold # <<>> =>
                /\ fetched # <<>>
                /\ fetched[1].price # NoPrice
                /\ fetched[1].price > p.buy_price
                /\ sold[1] = SellOrder(p.symbol, "profit", p.buy_quantity,
                                       fetched[1].price)
                /\ RouterSells(p.symbol, p.buy_quantity, fetched[1].price)
          /\ (fetched = <<>> \/ fetched[1].price = NoPrice
                \/ fetched[1].price <= p.buy_price) => NeverSold(p.symbol)

\* The cycle ends after one position of the profit-taking bucket was sold at
\* its fresh price and another, no longer profitable, was skipped.
C14_Witness ==
    /\ pc = "sell_end"
    /\ Len(profitable_positions) = 2
    /\ Len(sell_orders) = 1
    /\ sell_orders[1] = SellOrder(profitable_positions[1].symbol, "profit", 2, 110 * Unit)
    /\ sold_stocks = 1
    /\ price_calls[2] = PriceCall(profitable_positions[2].symbol, "profit", 100 * Unit)

\* C15: a stop-loss candidate held for less than 5 days causes no live-price
\* request and no SELL.
C15_ShortHoldingLeftAlone ==
    \A j \in 1..Len(non_profitable_positions) :
      LET p == non_profitable_positions[j]
      IN  today - p.buy_date < 5 =>
            /\ About(price_calls, p.symbol) = <<>>
            /\ NeverSold(p.symbol)

\* The stop-loss pass has gone past a candidate at -3 % held for 4 days.
C15_Witness ==
    /\ pc = "sell_end"
    /\ Len(non_profitable_positions) >= 1
    /\ today - non_profitable_positions[1].buy_date = 4
    /\ non_profitable_positions[1].buy_price = 100 * Unit
    /\ non_profitable_positions[1].current_price = 97 * Unit
    /\ non_profitable_positions[1].buy_quantity > 0

\* The cycle is over: the sell phase has ended or main has raised.
CycleOver == pc \in {"sell_end", "raised"}

\* A stop-loss candidate held for 5 days or more whose snapshot price is 3 %
\* below the entry price.
DueForStopLoss(p) ==
    /\ today - p.buy_date >= 5
    /\ p.buy_price # 0
    /\ (p.current_price - p.buy_price) * 100 = (0 - 3) * p.buy_price

\* The stop-loss pass did not find the live price missing or recovered
\* above the entry price.
NotRecovered(p) ==
    \A k \in 1..Len(price_calls) :
      (price_calls[k].symbol = p.symbol /\ price_calls[k].pass = "stop") =>
        /\ price_calls[k].price # NoPrice
        /\ price_calls[k].price <= p.buy_price

\* C16: by the end of the cycle, every stop-loss candidate held for 5 days or
\* more at -3 %, whose live price is not missing and not above the entry
\* price, has exactly one SELL submitted for it, for the held quantity at the
\* live price fetched for it.
C16_StopLossSellsOnce ==
    CycleOver =>
      \A j \in 1..Len(non_profitable_positions) :
        LET p == non_profitable_positions[j]
            fetched == About(price_calls, p.symbol)
            sold == About(sell_orders, p.symbol)
        IN  (DueForStopLoss(p) /\ NotRecovered(p)) =>
              /\ Len(fetched) = 1
              /\ Len(sold) = 1
              /\ sold[1] = SellOrder(p.symbol, "stop", p.buy_quantity,
                                     fetched[1].price)

\* C17: every SELL of the stop-loss pass has a live price that is not above
\* the entry price of its position.
C17_StopLossNeverAtGain ==
    \A k \in 1..Len(sell_orders) :
      sell_orders[k].pass = "stop" =>
        \A j \in 1..Len(non_profitable_positions) :
          non_profitable_positions[j].symbol = sell_orders[k].symbol =>
            sell_orders[k].price <= non_profitable_positions[j].buy_price

\* C25: no fault escapes main or the order router during the liquidation
\* passes, whatever the holdings (entry price >= 0, quantity >= 0), prices
\* and order outcomes are; and when the cycle is over every position of the
\* profit-taking bucket has had its live price fetched.
C25_FailureNeverAbortsBatch ==
    /\ pc # "raised"
    /\ rpc # "raised"
    /\ CycleOver =>
         \A j \in 1..Len(profitable_positions) :
           \E k \in 1..Len(price_calls) :
             /\ price_calls[k].symbol = profitable_positions[j].symbol
             /\ price_calls[k].pass = "profit"

\* The part of C25 the code keeps: the router never raises, and a price
\* that is not found or an order rejected everywhere moves on to the next
\* position.
C25_RouterAndPriceFailuresPass ==
    /\ rpc # "raised"
    /\ pc = "raised" =>
         /\ price_calls[Len(price_calls)].price # NoPrice
         /\ profitable_positions[si].buy_quantity = 0
         /\ profitable_positions[si].buy_price # 0

\* C27: every order handed to the order router has a quantity above 0.
C27_OrderQuantityPositive ==
    /\ rpc # "idle" => args.quantity > 0
    /\ \A k \in 1..Len(calls) : calls[k].quantity > 0
    /\ \A k \in 1..Len(sell_orders) : sell_orders[k].quantity > 0

\* The part of C27 the code keeps: a SELL of the profit-taking pass is for
\* a quantity above 0.
C27_ProfitSellQuantityPositive ==
    \A k \in 1..Len(sell_orders) :
      sell_orders[k].pass = "profit" => sell_orders[k].quantity > 0

\* The outcomes of the i-th holding: excluded by its entry date, handed to
\* the router by the profit-taking pass, handed to it by the stop-loss
\* pass, or evaluated and not handed to the router.
SellsOf(i, pass) ==
    SelectSeq(sell_orders,
              LAMBDA o : o.symbol = positions[i].symbol /\ o.pass = pass)
OutcomeExcluded(i) == Classified(i) /\ ~Evaluated(i)
OutcomeProfitSell(i) == Evaluated(i) /\ SellsOf(i, "profit") # <<>>
OutcomeStopSell(i) == Evaluated(i) /\ SellsOf(i, "stop") # <<>>
OutcomeRetained(i) ==
    Evaluated(i) /\ About(sell_orders, positions[i].symbol) = <<>>

Count(b) == IF b THEN 1 ELSE 0

\* C32: every holding the classification has dealt with has exactly one of
\* the four outcomes; at most one SELL is handed to the router for it and
\* the router is called at most once for it; a SELL of the profit-taking
\* pass is for a holding of the profit-taking bucket and a SELL of the
\* stop-loss pass for a stop-loss candidate, and no holding is in both
\* buckets, so a holding of the profit-taking bucket is never sold by the
\* stop-loss pass.
C32_OneOutcomePerPosition ==
    \A i \in 1..Len(positions) :
      LET symbol == positions[i].symbol
      IN  /\ Classified(i) =>
                Count(OutcomeExcluded(i)) + Count(OutcomeProfitSell(i))
                  + Count(OutcomeStopSell(i)) + Count(OutcomeRetained(i)) = 1
          /\ Len(About(sell_orders, symbol)) <= 1
          /\ Len(SelectSeq(calls, LAMBDA c : c.symbol = symbol /\ c.side = "SELL")) <= 1
          /\ ~Classified(i) => About(sell_orders, symbol) = <<>>
          /\ Len(About(profitable_positions, symbol))
                + Len(About(non_profitable_positions, symbol)) <= 1
          /\ SellsOf(i, "profit") # <<>> =>
                About(profitable_positions, symbol) # <<>>
          /\ SellsOf(i, "stop") # <<>> =>
                About(non_profitable_positions, symbol) # <<>>
          /\ About(profitable_positions, symbol) # <<>> =>
                SellsOf(i, "stop") = <<>>

\* At the end of the sell phase: AAA, of the profit-taking bucket and held
\* 5 days, had a live price of 97 below its entry price of 100 and was not
\* sold by either pass, and BBB was sold by the stop-loss pass.
C32_Witness ==
    /\ pc = "sell_end"
    /\ Len(positions) = 2
    /\ Len(profitable_positions) = 1
    /\ profitable_positions[1].symbol = positions[1].symbol
    /\ profitable_positions[1].buy_price = 100 * Unit
    /\ today - profitable_positions[1].buy_date = 5
    /\ About(price_calls, positions[1].symbol) =
         <<PriceCall(positions[1].symbol, "profit", 97 * Unit)>>
    /\ OutcomeRetained(1)
    /\ OutcomeStopSell(2)

\* C34: no profit computation divides by zero.  The classification and the
\* stop-loss pass divide by the entry price, the profit-taking pass by the
\* entry price times the quantity, each only when its test of the entry
\* price has passed: whenever the profit-taking pass has fetched a live
\* price for a holding whose entry price is not 0, the quantity of the
\* holding is not 0 either, and main has not raised.
C34_NoDivisionByZero ==
    /\ \A k \in 1..Len(price_calls) :
         (price_calls[k].pass = "profit" /\ price_calls[k].price # NoPrice) =>
           \A j \in 1..Len(profitable_positions) :
             (/\ profitable_positions[j].symbol = price_calls[k].symbol
              /\ profitable_positions[j].buy_price # 0) =>
                 profitable_positions[j].buy_quantity # 0
    /\ pc # "raised"

\* The part of C34 the code keeps: an entry price of 0 makes a holding a
\* stop-loss candidate with percentage 0, in the classification and in
\* the stop-loss pass, and main raises in the profit-taking pass only.
C34_EntryPriceZeroIsGuarded ==
    /\ \A j \in 1..Len(profitable_positions) :
         profitable_positions[j].buy_price # 0
    /\ pc = "raised" =>
         /\ price_calls # <<>>
         /\ price_calls[Len(price_calls)].pass = "profit"

\* ------------------------------------------------------------------------
\* Properties of the token cache
\* ------------------------------------------------------------------------

\* get_access_token has just been called.
Called == last_call.source # "no_call"

\* The call found a well-formed cache it could read, of this age or more.
FoundGood == Called /\ last_call.before.kind = "good" /\ last_call.readable
AgeFound == last_call.at - last_call.before.timestamp

\* C18: a call that finds a readable well-formed cache less than 24 hours
\* old returns the cached token, sends no new-token request and leaves the
\* cache as it was.
C18_ValidCacheReturned ==
    (FoundGood /\ AgeFound < 24) =>
        /\ last_call.source = "cache"
        /\ last_call.returned = last_call.before.access_token
        /\ last_call.requests = 0
        /\ token_file = last_call.before

\* The token issued at hour 24 is returned from the cache at hour 47.
C18_Witness ==
    /\ Called
    /\ last_call.before = Good("T1", 24)
    /\ last_call.at = 47
    /\ last_call.returned = "T1"
    /\ token_file = Good("T1", 24)

\* C19: a call that finds a cache 24 hours old or older does not return
\* from the cache: it sends exactly one new-token request and, when the
\* request yields a token, returns that token and the cache holds that
\* token with the time of the call; the old content is gone once os.remove
\* has removed it.
C19_ExpiredCacheReplaced ==
    (FoundGood /\ AgeFound >= 24) =>
        /\ last_call.source # "cache"
        /\ last_call.requests = 1
        /\ last_call.removed => token_file # last_call.before
        /\ last_call.reply \in Tokens =>
              /\ last_call.returned = last_call.reply
              /\ token_file = Good(last_call.reply, last_call.at)

\* The call found no cache, or one it could not read or use.
FoundBad ==
    /\ Called
    /\ \/ last_call.before.kind \in {"absent", "corrupt", "partial", "truncated"}
       \/ ~last_call.readable

\* C20: a call that finds the cache absent, unreadable, unparseable or
\* without one of its fields does not raise and does not return from the
\* cache: it sends one new-token request, also when the bad file could not
\* be deleted; a deleted file is gone, and a token that is returned is the
\* one the request gave, stored with the time of the call.
C20_BadCacheIsAMiss ==
    FoundBad =>
        /\ last_call.source \in {"auth", "none"}
        /\ last_call.requests = 1
        /\ last_call.reply \in AuthReplies
        /\ last_call.removed =>
              token_file \in {Absent, Good(last_call.reply, last_call.at),
                              File("truncated", None, 0)}
        /\ last_call.source = "auth" =>
              /\ last_call.returned = last_call.reply
              /\ token_file = Good(last_call.reply, last_call.at)
        /\ last_call.source = "none" => last_call.returned = None

\* An unparseable cache file could not be deleted, and the call went on to
\* get a new token and returned it.
C20_Witness ==
    /\ Called
    /\ last_call.before.kind = "corrupt"
    /\ ~last_call.removed
    /\ last_call.source = "auth"
    /\ last_call.returned \in Tokens

\* The call did not return from the cache: it sent the new-token request.
Requested == Called /\ last_call.requests = 1

\* C38: whenever the cache is unusable and the request is answered with a
\* token, the call returns that token, whatever happens to the write of the
\* cache file; it returns None only when the answer held no token, and then
\* the call has written nothing to the cache.
C38_TokenReturnedWhateverTheWrite ==
    Requested =>
        /\ last_call.reply \in Tokens => last_call.returned = last_call.reply
        /\ last_call.returned = None =>
              /\ last_call.reply \notin Tokens
              /\ last_call.write = None
              /\ token_file \in {last_call.before, Absent}

\* What holds of a call that sent the request: a token is returned exactly
\* when the answer held one and the write succeeded, and an answer without
\* a token leaves the cache unwritten.
C38_TokenReturnedWhenWritten ==
    Requested =>
        /\ (last_call.reply \in Tokens /\ last_call.write = "ok") =>
              /\ last_call.returned = last_call.reply
              /\ token_file = Good(last_call.reply, last_call.at)
        /\ last_call.reply \notin Tokens =>
              /\ last_call.returned = None
              /\ last_call.write = None
              /\ token_file \in {last_call.before, Absent}
        /\ (last_call.reply \in Tokens /\ last_call.write # "ok") =>
              last_call.returned = None

\* The request was answered with a token and the write of the cache failed.
C38_TokenIssuedWriteFailed ==
    /\ Requested
    /\ last_call.reply \in Tokens
    /\ last_call.write \in {"open_fails", "dump_fails"}

\* ------------------------------------------------------------------------
\* Properties of the price gateway
\* ------------------------------------------------------------------------

\* A failure of a venue: a transport error, a status that is not success
\* (HTTP or rt_cd), a price that is missing or cannot be parsed.
VenueFailed(reply) ==
    \/ reply.transport # "ok"
    \/ reply.status # 200
    \/ ~reply.json
    \/ reply.rt_cd # "0"
    \/ ~reply.output
    \/ ~reply.last.given
    \/ ~reply.last.number

\* C21: the venues are queried in the order NAS, NYS, AMS; every venue
\* queried before the last one queried has failed; the price returned is
\* the one of the last venue queried, which did not fail; the not-found
\* value is returned only after all three venues have failed.
C21_FirstVenueThatAnswers ==
    /\ Len(quotes) <= 3
    /\ \A i \in 1..Len(quotes) :
         /\ quotes[i].excd = <<"NAS", "NYS", "AMS">>[i]
         /\ i < Len(quotes) => VenueFailed(quotes[i].reply)
    /\ (quote_result.returned /\ quote_result.price # NoPrice) =>
         /\ ~VenueFailed(quotes[Len(quotes)].reply)
         /\ quote_result.price = quotes[Len(quotes)].reply.last.value
    /\ (quote_result.returned /\ quote_result.price = NoPrice) =>
         /\ Len(quotes) = 3
         /\ \A i \in 1..3 : VenueFailed(quotes[i].reply)
    /\ (~quote_result.returned /\ quotes # <<>>) =>
         VenueFailed(quotes[Len(quotes)].reply)

\* NAS times out, NYS gives 97: 97 is returned and AMS is not queried.
C21_Witness ==
    /\ quote_result = Returned(97 * Unit)
    /\ Len(quotes) = 2
    /\ quotes[1].reply.transport = "timeout"
    /\ quotes[2].excd = "NYS"

\* C22: a price returned by get_current_price is above 0.
C22_PriceReturnedIsPositive ==
    (quote_result.returned /\ quote_result.price # NoPrice) =>
        quote_result.price > 0

\* ------------------------------------------------------------------------
\* Properties of the ladder gateway
\* ------------------------------------------------------------------------

LadderReturned == ask_call.called /\ ~ask_call.is_none

\* The slots of the answer whose price is a number above 0 and whose volume
\* is present as a number.
ValidAsks ==
    {i \in 1..Len(ask_call.reply.asks) :
        LET ask == ask_call.reply.asks[i]
        IN  /\ ask.pask.given /\ ask.pask.number /\ ask.pask.value > 0
            /\ ask.vask.given /\ ask.vask.number}

\* C23: every level of a returned ladder has a price above 0; the ladder
\* has one level for each slot of the answer with a price above 0 and a
\* volume, and no other; the levels ascend by price.
C23_LadderLevelsArePositive ==
    LadderReturned =>
        /\ \A i \in 1..Len(ask_call.asking_prices) :
             ask_call.asking_prices[i].price > 0
        /\ Len(ask_call.asking_prices) = Cardinality(ValidAsks)
        /\ \A i \in ValidAsks :
             \E k \in 1..Len(ask_call.asking_prices) :
                 /\ ask_call.asking_prices[k].price = ask_call.reply.asks[i].pask.value
                 /\ ask_call.asking_prices[k].volume = ask_call.reply.asks[i].vask.value
        /\ \A i \in 1..(Len(ask_call.asking_prices) - 1) :
             ask_call.asking_prices[i].price <= ask_call.asking_prices[i + 1].price

\* The part of C23 the code keeps: slots without a volume or with a price
\* or volume that is not a number are dropped, and the levels ascend.
C23_AscendingAndVolumePresent ==
    LadderReturned =>
        /\ Len(ask_call.asking_prices) <=
             Cardinality({i \in 1..Len(ask_call.reply.asks) :
                            /\ ask_call.reply.asks[i].vask.given
                            /\ ask_call.reply.asks[i].pask.given})
        /\ \A i \in 1..(Len(ask_call.asking_prices) - 1) :
             ask_call.asking_prices[i].price <= ask_call.asking_prices[i + 1].price

\* A transport failure or a provider status that is not success.
LadderCallFailed ==
    \/ ask_call.reply.transport # "ok"
    \/ ask_call.reply.status # 200
    \/ ~ask_call.reply.json
    \/ ask_call.reply.rt_cd # "0"

\* C24: the error result (no ladder, a message) is returned exactly when
\* the transport or the provider's status failed; otherwise a ladder is
\* returned with no error, and it is the empty ladder when the provider
\* reports no ladder data or no slot is valid.
C24_EmptyLadderIsNotAnError ==
    ask_call.called =>
        /\ ask_call.is_none <=> LadderCallFailed
        /\ ask_call.is_none <=> ask_call.error # None
        /\ (~LadderCallFailed /\ (~ask_call.reply.output2 \/ ValidAsks = {})) =>
             (~ask_call.is_none /\ ask_call.asking_prices = <<>>)

\* The part of C24 the code keeps: an 'output2' whose slots are all invalid
\* gives the empty ladder with no error.
C24_AllInvalidIsEmptyLadder ==
    (ask_call.called /\ ~LadderCallFailed /\ ask_call.reply.output2
        /\ \A i \in 1..Len(ask_call.reply.asks) :
              ~(ask_call.reply.asks[i].pask.given /\ ask_call.reply.asks[i].pask.number
                /\ ask_call.reply.asks[i].vask.given /\ ask_call.reply.asks[i].vask.number)) =>
        (~ask_call.is_none /\ ask_call.asking_prices = <<>> /\ ask_call.error = None)

\* ------------------------------------------------------------------------
\* Properties of one cycle
\* ------------------------------------------------------------------------

\* The calls of the router that have returned, of one side.
CallsOfSide(side) == SelectSeq(calls, LAMBDA c : c.side = side)

\* A call of the router is in progress, for this side.
InFlight(side) == rpc = "venue" /\ Upper(args.order_type) = side

\* C31: in the calls of the router of one cycle no SELL comes after a BUY,
\* and no SELL is in progress once a BUY has been made; in the SELLs handed
\* to the router no profit-taking SELL comes after a stop-loss SELL; and a
\* SELL is handed to the router only when every SELL handed to it before
\* has returned, so that at most one order is in progress.
C31_SellsBeforeBuys ==
    /\ \A i \in 1..Len(calls) : \A j \in i..Len(calls) :
         calls[i].side = "BUY" => calls[j].side = "BUY"
    /\ InFlight("SELL") => CallsOfSide("BUY") = <<>>
    /\ \A i \in 1..Len(sell_orders) : \A j \in i..Len(sell_orders) :
         sell_orders[i].pass = "stop" => sell_orders[j].pass = "stop"
    /\ Len(sell_orders) =
         Len(CallsOfSide("SELL")) + (IF InFlight("SELL") THEN 1 ELSE 0)
    /\ (pc \in {"first_order", "retry_order"}) =>
         (pc \notin {"profit_order", "stop_order"} /\ rpc # "idle")

\* A profit-taking SELL, then a stop-loss SELL, then a BUY have returned.
C31_Witness ==
    /\ Len(calls) = 3
    /\ calls[1].side = "SELL" /\ calls[2].side = "SELL" /\ calls[3].side = "BUY"
    /\ Len(sell_orders) = 2
    /\ sell_orders[1].pass = "profit" /\ sell_orders[2].pass = "stop"
    /\ calls[1].accepted /\ calls[3].accepted

\* C37: no step of the cycle changes total_purchase_cash, the orderable
\* amount read before the sell phase; the budget a symbol of the buy phase
\* starts with is that amount divided by the number of signals (buy_amount
\* is kept as a numerator over that number), whatever the SELLs of the
\* cycle were and whether they were accepted.
C37_CashReadOnceBeforeSells ==
    [][/\ total_purchase_cash' = total_purchase_cash
       /\ (pc = "for_action" /\ pc' = "for_ask") =>
             buy_amount' = total_purchase_cash
      ]_vars

\* A SELL of 2 at 110 has been accepted, and the walk of the only signal
\* starts with the whole of the 200 read before the sell phase.
C37_Witness ==
    /\ pc = "for_ask"
    /\ li = 1
    /\ n = 1
    /\ \E k \in 1..Len(calls) :
         /\ calls[k].side = "SELL" /\ calls[k].accepted
         /\ calls[k].quantity = 2 /\ calls[k].price = 110 * Unit
    /\ sold_stocks >= 1
    /\ total_purchase_cash = 200 * Unit
    /\ buy_amount = 200 * Unit
====
